---- MODULE Spec2Model ----
(***************************************************************************)
(* A model of SuiteSparse:GraphBLAS GB_AxB_dot2 (C<M> = A'*B by dot        *)
(* products, built in two phases by a team of threads), of the terminal    *)
(* early exit of the dot product and reduction kernels, and of the         *)
(* saxpy3 strategy it is compared with; and of GB_AxB_dot4_mkl,           *)
(* GB_memcpy and the demo mis, each a program of its own with its own      *)
(* variable and specification.                                             *)
(*                                                                         *)
(* All matrix values are integers; bool is 0/1.  A matrix holds its        *)
(* entries as a function x from the stored positions <<k, vector>> to      *)
(* values.  Vectors, rows and thread ids are numbered from 0 as in C.      *)
(***************************************************************************)
EXTENDS Integers, Sequences, FiniteSets, TLC

VARIABLES
    M,              \* mask: [present, x]; present = FALSE is M == NULL
    Mask_comp,      \* use !M
    A,              \* the matrix the slices are views of (Aslice [0] for dims)
    Aslice,         \* tid -> [rows, nvec_nonempty]: the vectors of A in the slice
    B,              \* [vlen, vdim, is_hyper, h, nvec_nonempty, x]
    semiring,       \* name of the semiring
    flipxy,         \* z = fmult (b,a) instead of fmult (a,b)
    nthreads,       \* number of threads = number of slices
    build,          \* compile-time configuration: [GBCOMPACT, GB_DISABLE]
    old,            \* what the caller's objects held when the call started
    Chandle,        \* what *Chandle holds: "stale", "NULL" or "C"
    C,              \* the matrix object made by GB_NEW
    info,           \* GrB_Info info (line 56), "uninit" until assigned
    ok,             \* bool ok (line 126)
    C_counts,       \* tid -> [ptr, a]
    heap,           \* bookkeeping of the count arrays: [nalloc, nfree, bad]
    pc,             \* position of the calling thread
    tpc,            \* tid -> position of the thread inside a parallel region
    tk,             \* tid -> next vector of B the thread handles in phase 2
    path,           \* tid -> kernels that computed the slice in phase 2
    wlog,           \* phase-2 writes into C->i / C->x: set of <<tid, k, pos>>
    infow,          \* tids that assigned the shared variable info in phase 2
    ret,            \* status returned to the caller, "none" while running
    mask_applied,   \* *mask_applied, "unset" until assigned
    red,            \* a call of GB_red_scalar__max_int8: Ax, nthreads, s, ...
    mkl,            \* a call of GB_AxB_dot4_mkl: c, the MKL objects, ...
    cpy,            \* a call of GB_memcpy: dest, src, n, nthreads, ...
    mis,            \* a call of mis: A, iset, candidates, ...
    sel             \* a call of gbselect: nargin, nargout, pargin, ...

\* the variables of the other programs, which a call of GB_AxB_dot2 leaves alone
othervars == <<red, mkl, cpy, mis, sel>>

callvars == <<M, Mask_comp, A, Aslice, B, semiring, flipxy, nthreads, build, old>>
dot2vars == <<Chandle, C, info, ok, C_counts, heap, pc, tpc, tk, path, wlog,
              infow, ret, mask_applied>>

\* ------------------------------------------------------------------------
\* bounds of the model
\* ------------------------------------------------------------------------

MaxThreads == 2     \* nthreads ranges over 1..MaxThreads
VLen == 1           \* A->vlen = B->vlen, the dimension the dot products run over
AVdim == 2          \* A->vdim = number of rows of C
BVdim == 2          \* B->vdim = number of columns of C
MaxNnz == 2         \* most entries of A, and of B, in the unmasked family
Dim == 2            \* vlen = vdim of A and B in the families with values
MaxMaskNnz == 1     \* most entries of the mask M
TermLen == 3        \* most terms of a dot product or a reduction that may stop early
MklLen == 2         \* greatest length of the dense vectors c and b of GB_AxB_dot4_mkl
GB_CHUNK == 2       \* bytes of a chunk of GB_memcpy, scaled down from 1024*1024
MaxBytes == 5       \* size of the buffers of GB_memcpy; n ranges over 0..MaxBytes
MisN == 3           \* most nodes of the graph of mis
NScores == 3        \* the random scores of mis range over 1..NScores
MaxNargin == 8      \* most arguments of a call of gbselect
RowsVdim == 3       \* A->vdim in the family of calls with three rows of C

\* ------------------------------------------------------------------------
\* helpers
\* ------------------------------------------------------------------------

Min(S) == CHOOSE m \in S : \A n \in S : m <= n

RECURSIVE SortedSeq(_)
SortedSeq(S) == IF S = {} THEN << >>
                ELSE LET m == Min(S) IN <<m>> \o SortedSeq(S \ {m})

RECURSIVE SumTo(_, _)
\* f [0] + ... + f [n-1]
SumTo(f, n) == IF n = 0 THEN 0 ELSE SumTo(f, n - 1) + f[n - 1]

Threads == 0 .. nthreads - 1

Cells(nr, nc) == (0 .. nr - 1) \X (0 .. nc - 1)
Patterns(nr, nc, maxnz) == {P \in SUBSET Cells(nr, nc) : Cardinality(P) <= maxnz}
Contents(nr, nc, maxnz, Vals) == UNION {[P -> Vals] : P \in Patterns(nr, nc, maxnz)}

\* the rows k stored in vector v of a matrix content x
VecRows(x, vlen, v) == {k \in 0 .. vlen - 1 : <<k, v>> \in DOMAIN x}

\* ------------------------------------------------------------------------
\* the operators of the semirings
\* ------------------------------------------------------------------------

INT8_MAX == 127
INT8_MIN == -128

\* two's complement wrap of an integer to int8_t
Int8(v) == ((v + 128) % 256) - 128

Semirings == {"LOR_FIRST_BOOL", "LOR_LAND_BOOL", "PLUS_TIMES_FP64",
              "MAX_SECOND_INT8", "USER_PLUS_TIMES"}

ObjectKind(sr) == IF sr = "USER_PLUS_TIMES" THEN "GB_USER_COMPILED" ELSE "GB_BUILTIN"

AddOp(sr) == CASE sr \in {"LOR_FIRST_BOOL", "LOR_LAND_BOOL"} -> "LOR"
               [] sr \in {"PLUS_TIMES_FP64", "USER_PLUS_TIMES"} -> "PLUS"
               [] sr = "MAX_SECOND_INT8" -> "MAX"

MultOp(sr) == CASE sr = "LOR_FIRST_BOOL" -> "FIRST"
                [] sr = "LOR_LAND_BOOL" -> "LAND"
                [] sr \in {"PLUS_TIMES_FP64", "USER_PLUS_TIMES"} -> "TIMES"
                [] sr = "MAX_SECOND_INT8" -> "SECOND"

\* z = fadd (x, y) of the monoid
fadd(op, x, y) == CASE op = "LOR" -> IF x # 0 \/ y # 0 THEN 1 ELSE 0
                    [] op = "LAND" -> IF x # 0 /\ y # 0 THEN 1 ELSE 0
                    [] op = "PLUS" -> x + y
                    [] op = "MAX" -> IF x >= y THEN x ELSE y
                    [] op = "MIN" -> IF x <= y THEN x ELSE y
                    [] op = "TIMES8" -> Int8(x * y)

\* z = fmult (x, y) of the multiply operator
fmult(op, x, y) == CASE op = "FIRST" -> x
                     [] op = "SECOND" -> y
                     [] op = "LAND" -> IF x # 0 /\ y # 0 THEN 1 ELSE 0
                     [] op = "TIMES" -> x * y

\* add->terminal: does the monoid declare one, and which
HasTerminal(op) == op \in {"LOR", "LAND", "MAX", "MIN", "TIMES8"}
Terminal(op) == CASE op = "LOR" -> 1
                  [] op = "LAND" -> 0
                  [] op = "MAX" -> INT8_MAX
                  [] op = "MIN" -> INT8_MIN
                  [] op = "TIMES8" -> 0
                  [] OTHER -> 0

\* the types of the operators: each semiring here has xtype = ytype = ztype
OpType(sr) == CASE sr \in {"LOR_FIRST_BOOL", "LOR_LAND_BOOL"} -> "bool"
                [] sr \in {"PLUS_TIMES_FP64", "USER_PLUS_TIMES"} -> "fp64"
                [] sr = "MAX_SECOND_INT8" -> "int8"

\* GB_cast_factory (to, from): the typecast of a stored value
Cast(v, to) == CASE to = "bool" -> IF v # 0 THEN 1 ELSE 0
                 [] to = "int8" -> Int8(v)
                 [] to = "fp64" -> v

\* memcmp (cij, terminal, csize) == 0: the bytes of a value of the type
Bytes(v, type) == IF type = "fp64" THEN v ELSE v % 256

\* ------------------------------------------------------------------------
\* GB_AxB_dot2, lines 83-107: the pattern-only operands
\* ------------------------------------------------------------------------

op_is_first == MultOp(semiring) = "FIRST"
op_is_second == MultOp(semiring) = "SECOND"
A_is_pattern == IF flipxy THEN op_is_first ELSE op_is_second
B_is_pattern == IF flipxy THEN op_is_second ELSE op_is_first

\* ------------------------------------------------------------------------
\* one dot product C(i,j) = A(:,i)'*B(:,j)
\* ------------------------------------------------------------------------

\* the column of C held by vector k of B (B->h [k] if B is hypersparse)
VecOf(k) == IF B.is_hyper THEN B.h[k] ELSE k
cnvec == B.nvec

\* the mask arguments of a kernel: the matrix and the complement flag
\* the kernels and the count are given M and !Mask_comp
KernelMask_flipped == [M |-> M, comp |-> ~Mask_comp]

\* lines 138-139, 229, 277-278: the count and the kernels are given M and
\* Mask_comp
KernelMask == [M |-> M, comp |-> Mask_comp]

\* the mask entry M(i,j) typecast to bool, complemented if Mask_comp
MaskAllows(i, j) ==
    LET mk == KernelMask
    IN  IF ~mk.M.present THEN TRUE
        ELSE LET mij == <<i, j>> \in DOMAIN mk.M.x /\ mk.M.x[<<i, j>>] # 0
             IN  IF mk.comp THEN ~mij ELSE mij

\* the rows k with both A(k,i) and B(k,j) stored, in ascending order
Ks(i, j) == {k \in 0 .. A.vlen - 1 : <<k, i>> \in DOMAIN A.x /\ <<k, j>> \in DOMAIN B.x}
cij_exists(i, j) == MaskAllows(i, j) /\ Ks(i, j) # {}

\* GB_GETA / GB_GETB of the generic kernel (lines 346-351)
GB_GETA(k, i) == IF A_is_pattern THEN 0
                 ELSE Cast(A.x[<<k, i>>], OpType(semiring))
GB_GETB(k, j) == IF B_is_pattern THEN 0
                 ELSE Cast(B.x[<<k, j>>], OpType(semiring))

\* GB_MULTIPLY (z,x,y): fmult (z,y,x) if flipxy, else fmult (z,x,y)
GB_MULTIPLY(x, y) == IF flipxy THEN fmult(MultOp(semiring), y, x)
                     ELSE fmult(MultOp(semiring), x, y)

\* the bytes of cij are compared with zero bytes
GB_DOT_TERMINAL_zero(cij) ==
    /\ HasTerminal(AddOp(semiring))
    /\ Bytes(cij, OpType(semiring)) = 0

\* GB_DOT_TERMINAL of the generic kernel: terminal != NULL && memcmp (...) == 0
GB_DOT_TERMINAL(cij) ==
    /\ HasTerminal(AddOp(semiring))
    /\ Bytes(cij, OpType(semiring)) = Bytes(Terminal(AddOp(semiring)), OpType(semiring))

\* cij = mult (aki, bkj): the product replaces the sum
GB_MULTADD_overwrite(cij, aki, bkj) == GB_MULTIPLY(aki, bkj)

\* GB_MULTADD of the generic kernel: t = mult (aki, bkj) ; fadd (cij, cij, t)
GB_MULTADD(cij, aki, bkj) == fadd(AddOp(semiring), cij, GB_MULTIPLY(aki, bkj))

RECURSIVE DotLoopGeneric(_, _, _, _, _)
\* the loop over the rest of the intersection, with the early exit
DotLoopGeneric(cij, ks, n, i, j) ==
    IF n > Len(ks) THEN cij
    ELSE IF GB_DOT_TERMINAL(cij) THEN cij
    ELSE DotLoopGeneric(GB_MULTADD(cij, GB_GETA(ks[n], i), GB_GETB(ks[n], j)),
                        ks, n + 1, i, j)

DotGeneric(i, j) ==
    LET ks == SortedSeq(Ks(i, j))
    IN  DotLoopGeneric(GB_MULTIPLY(GB_GETA(ks[1], i), GB_GETB(ks[1], j)),
                       ks, 2, i, j)

\* the hard-coded kernel of LOR_FIRST_BOOL: z = x ; z |= x ; stop at true
lor_first_MULT(x, y) == x
lor_first_MULTADD(z, x, y) == IF z # 0 \/ x # 0 THEN 1 ELSE 0
lor_first_DOT_TERMINAL_false(cij) == cij = 0
lor_first_DOT_TERMINAL(cij) == cij = 1

RECURSIVE DotLoopLorFirst(_, _, _, _)
DotLoopLorFirst(cij, ks, n, i) ==
    IF n > Len(ks) THEN cij
    ELSE IF lor_first_DOT_TERMINAL(cij) THEN cij
    ELSE DotLoopLorFirst(lor_first_MULTADD(cij, A.x[<<ks[n], i>>], 0), ks, n + 1, i)

DotLorFirst(i, j) ==
    LET ks == SortedSeq(Ks(i, j))
    IN  DotLoopLorFirst(lor_first_MULT(A.x[<<ks[1], i>>], 0), ks, 2, i)

\* GB_HX_WRITE (i,t): Hx [i] = t, and GB_HX_UPDATE (i,t): Hx [i] |= t
lor_first_HX_WRITE(t) == t
lor_first_HX_UPDATE(hx, t) == IF hx # 0 \/ t # 0 THEN 1 ELSE 0

\* the value a kernel stores for C(i,j): the hard-coded kernel when the
\* semiring is LOR_FIRST_BOOL, the function-pointer kernel otherwise
KernelValue(kern, i, j) ==
    IF kern = "builtin" /\ semiring = "LOR_FIRST_BOOL" /\ ~flipxy
    THEN DotLorFirst(i, j) ELSE DotGeneric(i, j)

\* ------------------------------------------------------------------------
\* what one thread does with vector k of B: GB_AxB_dot2_count (phase 1)
\* and the GB_PHASE_2_OF_2 template (phase 2) scan the vectors of the slice
\* in ascending order
\* ------------------------------------------------------------------------

SliceRows(tid) == SortedSeq(Aslice[tid].rows)

\* the rows i of the slice whose C(i,j) exists, in scan order
ThreadRows(tid, k) == SelectSeq(SliceRows(tid), LAMBDA i : cij_exists(i, VecOf(k)))

\* phase 1: the count of thread tid for each vector of B
CountSlice(tid) == [k \in 0 .. cnvec - 1 |-> Len(ThreadRows(tid, k))]

\* GB_nvec_nonempty: the number of non-empty vectors among a set of vectors
GB_nvec_nonempty(x, vlen, vecs) == Cardinality({v \in vecs : VecRows(x, vlen, v) # {}})

\* ------------------------------------------------------------------------
\* the count arrays: GB_FREE_MEMORY and GB_FREE_ALL (lines 29-35)
\* ------------------------------------------------------------------------

\* GB_FREE_MEMORY (C_counts [tid], ...): free the block and set the pointer
\* to NULL; free (NULL) does nothing
GB_FREE_MEMORY(s, tid) ==
    LET ptr == s.c[tid].ptr
    IN  CASE ptr = "alloc" ->
               [c |-> [s.c EXCEPT ![tid] = [ptr |-> "NULL", a |-> << >>]],
                h |-> [s.h EXCEPT !.nfree[tid] = @ + 1]]
          [] ptr = "NULL" -> s
          [] OTHER -> [s EXCEPT !.h.bad = @ \cup {<<"free", ptr, tid>>}]

RECURSIVE FreeRange(_, _, _)
\* GB_FREE_MEMORY for tid = from, ..., to - 1
FreeRange(s, from, to) ==
    IF from >= to THEN s ELSE FreeRange(GB_FREE_MEMORY(s, from), from + 1, to)

\* a loop that stops one thread short
GB_FREE_ALL_short(s) == FreeRange(s, 0, nthreads - 1)

\* for (tid = 0 ; tid < nthreads ; tid++) GB_FREE_MEMORY (C_counts [tid], ...)
GB_FREE_ALL(s) == FreeRange(s, 0, nthreads)

Counts == [c |-> C_counts, h |-> heap]

\* ------------------------------------------------------------------------
\* the prefix sums (lines 159-179)
\* ------------------------------------------------------------------------

\* the count of thread tid becomes the sum of the counts of the threads
\* after it
PrefixCount_after(cc, tid, k) ==
    SumTo([t \in 0 .. nthreads - 1 |-> cc[t].a[k]], nthreads)
        - SumTo([t \in 0 .. nthreads - 1 |-> cc[t].a[k]], tid + 1)

\* s += c ; C_count [k] = s : the sum includes the thread's own count
PrefixCount_inclusive(cc, tid, k) ==
    SumTo([t \in 0 .. nthreads - 1 |-> cc[t].a[k]], tid + 1)

\* C_count [k] = s ; s += c : the count of thread tid becomes the sum of the
\* counts of the threads before it
PrefixCount(cc, tid, k) == SumTo([t \in 0 .. nthreads - 1 |-> cc[t].a[k]], tid)

\* Cp [k] = c : the count of the last thread alone
VectorCount_last(cc, k) == cc[nthreads - 1].a[k]

\* Cp [k] = s after the loop over the threads: the total count of vector k
VectorCount(cc, k) == SumTo([t \in 0 .. nthreads - 1 |-> cc[t].a[k]], nthreads)

\* GB_cumsum (Cp, cnvec, ...): Cp [k] = sum of the counts of the vectors before
\* k, Cp [cnvec] = the sum of all
GB_cumsum(cnt, n) == [k \in 0 .. n |-> SumTo(cnt, k)]

\* ------------------------------------------------------------------------
\* the callers' inputs
\* ------------------------------------------------------------------------

NoMask == [present |-> FALSE, x |-> << >>]

ZeroBased(sq) == [k \in 0 .. Len(sq) - 1 |-> sq[k + 1]]

\* a matrix B with the content x, hypersparse (h lists its non-empty
\* vectors) or not; nvec_nonempty is not yet computed
MakeB(x, vlen, vdim, type, hyper) ==
    LET nonempty == {j \in 0 .. vdim - 1 : VecRows(x, vlen, j) # {}}
    IN  [vlen |-> vlen, vdim |-> vdim, type |-> type, is_hyper |-> hyper,
         h |-> IF hyper THEN ZeroBased(SortedSeq(nonempty)) ELSE << >>,
         nvec |-> IF hyper THEN Cardinality(nonempty) ELSE vdim,
         nvec_nonempty |-> -1, x |-> x]

MakeA(x, vlen, vdim, type) == [vlen |-> vlen, vdim |-> vdim, type |-> type, x |-> x]

\* the slices of A: consecutive ranges of its vectors, each of at least
\* minrows vectors
Slicings(n, vdim, minrows) ==
    {[t \in 0 .. n - 1 |-> [rows |-> c[t] .. c[t + 1] - 1, nvec_nonempty |-> -1]] :
        c \in {d \in [0 .. n -> 0 .. vdim] :
                 /\ d[0] = 0 /\ d[n] = vdim
                 /\ \A t \in 0 .. n - 1 : d[t] + minrows <= d[t + 1]}}

NoC == [st |-> "none", magic |-> "none", is_hyper |-> FALSE, h |-> << >>,
        p |-> << >>, i |-> << >>, x |-> << >>, nzmax |-> 0, nvec_nonempty |-> -1]

\* no call of GB_red_scalar__max_int8
NoReduce == [pc |-> "idle", Ax |-> << >>, nthreads |-> 1, s |-> 0, p |-> 0,
             w |-> << >>, ran |-> {}, result |-> "unset"]

\* no call of GB_AxB_dot4_mkl
NoMkl == [pc |-> "idle"]

\* no call of GB_memcpy
NoMemcpy == [pc |-> "idle", n |-> 0, nthreads |-> 0, team |-> 0, nchunks |-> 0,
             next |-> 0, hold |-> << >>, src |-> << >>, dest |-> << >>,
             dest0 |-> << >>, writes |-> {}]

\* no call of mis
NoMis == [pc |-> "idle", n |-> 0, A |-> {}, degrees |-> << >>, candidates |-> << >>,
          iset |-> << >>, prob |-> << >>, neighbor_max |-> << >>,
          new_members |-> << >>, new_neighbors |-> << >>, nvals |-> 0,
          last_nvals |-> 0, rounds |-> 0, iset_output |-> "unset"]

\* no argument of gbselect fetched: each of op, A, thunk, Cin, M and accum
\* holds the position in pargin it was fetched from, -1 while it is NULL
NoArgs == [op |-> -1, A |-> -1, thunk |-> -1, C |-> -1, M |-> -1, accum |-> -1]

\* no call of gbselect
NoSelect == [pc |-> "idle", nargin |-> 0, nargout |-> 0, str |-> << >>,
             reads |-> {}, form |-> "none", args |-> NoArgs, usage |-> "none",
             called |-> FALSE]

\* the state of a call before its first statement, *Chandle holding h
CallStartFrom(h) ==
    /\ red = NoReduce /\ mkl = NoMkl /\ cpy = NoMemcpy /\ mis = NoMis
    /\ sel = NoSelect
    /\ Chandle = h
    /\ old = [M |-> M, Aslice |-> Aslice, B |-> B, Chandle |-> Chandle]
    /\ C = NoC
    /\ info = "uninit"
    /\ ok = FALSE
    /\ C_counts = [t \in Threads |-> [ptr |-> "uninit", a |-> << >>]]
    /\ heap = [nalloc |-> [t \in Threads |-> 0], nfree |-> [t \in Threads |-> 0],
               reads |-> {}, bad |-> {}]
    /\ pc = "entry"
    /\ tpc = [t \in Threads |-> "idle"]
    /\ tk = [t \in Threads |-> 0]
    /\ path = [t \in Threads |-> {}]
    /\ wlog = {}
    /\ infow = {}
    /\ ret = "none"
    /\ mask_applied = "unset"

\* the caller's handle holds a pointer left from earlier
CallStart == CallStartFrom("stale")

DefaultBuild == [GBCOMPACT |-> FALSE, GB_DISABLE |-> FALSE]

\* unmasked boolean products of every pattern of at most MaxNnz entries, with
\* B standard or hypersparse, every thread count up to MaxThreads and every
\* slicing into non-empty slices
Init ==
    /\ nthreads \in 1 .. MaxThreads
    /\ A \in {MakeA(x, VLen, AVdim, "bool") : x \in Contents(VLen, AVdim, MaxNnz, {1})}
    /\ Aslice \in Slicings(nthreads, AVdim, 1)
    /\ B \in {MakeB(x, VLen, BVdim, "bool", hy) :
                x \in Contents(VLen, BVdim, MaxNnz, {1}), hy \in BOOLEAN}
    /\ B.is_hyper => B.nvec < B.vdim
    /\ M = NoMask
    /\ Mask_comp = FALSE
    /\ semiring = "LOR_FIRST_BOOL"
    /\ flipxy = FALSE
    /\ build = DefaultBuild
    /\ CallStart

\* ------------------------------------------------------------------------
\* GB_AxB_dot2, lines 109-126: up to the first parallel region
\* ------------------------------------------------------------------------

Entry ==
    /\ pc = "entry"
    /\ Chandle' = "NULL"
    /\ B' = IF B.nvec_nonempty < 0
            THEN [B EXCEPT !.nvec_nonempty =
                            GB_nvec_nonempty(B.x, B.vlen, 0 .. B.vdim - 1)]
            ELSE B
    /\ ok' = TRUE
    /\ tpc' = [t \in Threads |-> "count"]
    /\ pc' = "phase1"
    /\ UNCHANGED othervars
    /\ UNCHANGED <<M, Mask_comp, A, Aslice, semiring, flipxy, nthreads, build,
                   old, C, info, C_counts, heap, tk, path, wlog, infow, ret,
                   mask_applied>>

\* ------------------------------------------------------------------------
\* lines 129-143: phase 1, one iteration of the parallel loop.  The count
\* array is allocated by GB_AxB_dot2_count, which fails when out of memory.
\* ------------------------------------------------------------------------

\* line 134: GB_nvec_nonempty (A, NULL), where A is Aslice [0] (line 57)
SliceNvecNonempty(tid) == GB_nvec_nonempty(A.x, A.vlen, Aslice[0].rows)

Phase1(tid) ==
    /\ pc = "phase1"
    /\ tpc[tid] = "count"
    /\ Aslice' = IF Aslice[tid].nvec_nonempty < 0
                 THEN [Aslice EXCEPT ![tid].nvec_nonempty = SliceNvecNonempty(tid)]
                 ELSE Aslice
    /\ \E alloc_ok \in BOOLEAN, C_count \in {CountSlice(tid)} :
          /\ C_counts' = [C_counts EXCEPT ![tid] =
                            IF alloc_ok THEN [ptr |-> "alloc", a |-> C_count]
                            ELSE [ptr |-> "NULL", a |-> << >>]]
          /\ heap' = IF alloc_ok THEN [heap EXCEPT !.nalloc[tid] = @ + 1] ELSE heap
          /\ ok' = (ok /\ alloc_ok)
    /\ tpc' = [tpc EXCEPT ![tid] = "counted"]
    /\ UNCHANGED othervars
    /\ UNCHANGED <<M, Mask_comp, A, B, semiring, flipxy, nthreads, build,
                   old, Chandle, C, info, pc, tk, path, wlog, infow, ret, mask_applied>>

\* ------------------------------------------------------------------------
\* lines 145-154: GB_NEW and the test of the two failures
\* ------------------------------------------------------------------------

\* the header and the vector pointers GB_NEW allocates (GB_Ap_malloc)
NewHeader == [NoC EXCEPT !.st = "header", !.magic = "GB_MAGIC2",
                         !.is_hyper = B.is_hyper,
                         !.h = [k \in DOMAIN B.h |-> 0],
                         !.p = [k \in 0 .. cnvec |-> 0]]

\* if (!ok || info != GrB_SUCCESS) : the failure test of line 149
Phase1Failed(okv, infov) == ~okv \/ infov # "GrB_SUCCESS"

\* line 143: the end of the first parallel region, where the threads join
Phase1Joined == \A t \in Threads : tpc[t] = "counted"

NewC ==
    /\ pc = "phase1"
    /\ Phase1Joined
    /\ \E new_ok \in BOOLEAN :
          LET infov == IF new_ok THEN "GrB_SUCCESS" ELSE "GrB_OUT_OF_MEMORY"
              freed == GB_FREE_ALL(Counts)
          IN  /\ info' = infov
              /\ Chandle' = IF new_ok THEN "C" ELSE "NULL"
              /\ C' = IF new_ok THEN NewHeader ELSE C
              /\ IF Phase1Failed(ok, infov)
                 THEN /\ C_counts' = freed.c
                      /\ heap' = freed.h
                      /\ ret' = infov
                      /\ pc' = "done"
                 ELSE /\ UNCHANGED <<C_counts, heap, ret>>
                      /\ pc' = "cumsum"
    /\ tpc' = [t \in Threads |-> "idle"]
    /\ UNCHANGED othervars
    /\ UNCHANGED <<callvars, ok, tk, path, wlog, infow, mask_applied>>

\* ------------------------------------------------------------------------
\* lines 156-179: the counts become prefix sums over the threads, Cp the
\* cumulative sum of the vector totals, and cnz = Cp [cnvec]
\* ------------------------------------------------------------------------

CumSum ==
    /\ pc = "cumsum"
    /\ C_counts' = [t \in Threads |->
                      [C_counts[t] EXCEPT !.a = [k \in 0 .. cnvec - 1 |->
                                                   PrefixCount(C_counts, t, k)]]]
    /\ LET cnt == [k \in 0 .. cnvec - 1 |-> VectorCount(C_counts, k)]
       IN  C' = [C EXCEPT !.p = GB_cumsum(cnt, cnvec),
                          !.nvec_nonempty =
                              Cardinality({k \in 0 .. cnvec - 1 : cnt[k] > 0})]
    /\ pc' = "free0"
    /\ UNCHANGED othervars
    /\ UNCHANGED <<callvars, Chandle, info, ok, heap, tpc, tk, path, wlog, infow,
                   ret, mask_applied>>

\* an empty C counts as one entry
cnz_atleast1 == IF C.p[cnvec] = 0 THEN 1 ELSE C.p[cnvec]

\* line 179: cnz = Cp [cnvec]
cnz == C.p[cnvec]

\* ------------------------------------------------------------------------
\* lines 181-189: C->h = B->h, the count array of thread 0 is freed
\* ------------------------------------------------------------------------

FreeFirst ==
    /\ pc = "free0"
    /\ LET freed == GB_FREE_MEMORY(Counts, 0)
       IN  /\ C_counts' = freed.c
           /\ heap' = freed.h
    /\ C' = [C EXCEPT !.h = IF B.is_hyper THEN B.h ELSE @, !.magic = "GB_MAGIC"]
    /\ pc' = "ixalloc"
    /\ UNCHANGED othervars
    /\ UNCHANGED <<callvars, Chandle, info, ok, tpc, tk, path, wlog, infow, ret,
                   mask_applied>>

\* ------------------------------------------------------------------------
\* lines 195-201: GB_ix_alloc (C, cnz, ...) allocates C->i and C->x; when it
\* fails it frees the content of C, whose header stays where *Chandle points
\* ------------------------------------------------------------------------

IxAlloc ==
    /\ pc = "ixalloc"
    /\ \E ix_ok \in BOOLEAN :
          LET freed == GB_FREE_ALL(Counts)
          IN  IF ix_ok
              THEN /\ info' = "GrB_SUCCESS"
                   /\ C' = [C EXCEPT !.st = "allocated", !.nzmax = cnz,
                                     !.i = [q \in 0 .. cnz - 1 |-> -1],
                                     !.x = [q \in 0 .. cnz - 1 |-> 0]]
                   /\ pc' = "phase2"
                   /\ tpc' = [t \in Threads |-> "run"]
                   /\ UNCHANGED <<C_counts, heap, ret>>
              ELSE /\ info' = "GrB_OUT_OF_MEMORY"
                   /\ C' = [NoC EXCEPT !.st = "content_freed"]
                   /\ C_counts' = freed.c
                   /\ heap' = freed.h
                   /\ ret' = "GrB_OUT_OF_MEMORY"
                   /\ pc' = "done"
                   /\ UNCHANGED tpc
    /\ UNCHANGED othervars
    /\ UNCHANGED <<callvars, Chandle, ok, tk, path, wlog, infow, mask_applied>>

\* ------------------------------------------------------------------------
\* lines 207-394: phase 2, the body of the parallel loop for one thread
\* ------------------------------------------------------------------------

\* every thread starts at Cp [k]
C_count_start_null(tid) == -1

\* lines 211-214: the count arrays the thread is given, -1 for NULL
C_count_start(tid) ==
    IF tid = 0 \/ C_counts[tid].ptr = "NULL" THEN -1 ELSE tid

\* the thread ends where it starts
C_count_end_own(tid) ==
    IF tid = 0 \/ C_counts[tid].ptr = "NULL" THEN -1 ELSE tid

C_count_end(tid) ==
    IF tid = nthreads - 1 \/ C_counts[tid + 1].ptr = "NULL" THEN -1 ELSE tid + 1

\* GB_AxB_semiring_builtin: a built-in semiring whose operand types are those
\* of its operators
SemiringBuiltin ==
    /\ ObjectKind(semiring) = "GB_BUILTIN"
    /\ A_is_pattern \/ A.type = OpType(semiring)
    /\ B_is_pattern \/ B.type = OpType(semiring)

\* lines 256-282: the user-compiled kernel needs the exact operand types
UserKernelApplies ==
    /\ ObjectKind(semiring) = "GB_USER_COMPILED"
    /\ A.type = OpType(semiring)
    /\ B.type = OpType(semiring)

\* lines 218-292: the kernels that run for a thread, in the order they run
Kernels ==
    LET builtin == IF ~build.GBCOMPACT /\ SemiringBuiltin THEN <<"builtin">> ELSE << >>
        user == IF UserKernelApplies THEN <<"user">> ELSE << >>
        done == Len(builtin \o user) > 0
    IN  builtin \o user \o (IF ~done THEN <<"generic">> ELSE << >>)

\* the status a kernel returns; a disabled hard-coded kernel returns
\* GrB_NO_VALUE and computes nothing
KernelStatus(kern) ==
    IF kern = "builtin" /\ build.GB_DISABLE THEN "GrB_NO_VALUE" ELSE "GrB_SUCCESS"

\* the kernels of the thread that compute its slice
Computing == SelectSeq(Kernels, LAMBDA kn : KernelStatus(kn) = "GrB_SUCCESS")

\* the kernels that assign info (GB_AxB_WORKER, line 230; line 277)
Assigning == SelectSeq(Kernels, LAMBDA kn : kn # "generic")

\* the template, phase 2: where the entries of thread tid in vector k start
\* and end
FirstPos(tid, k) ==
    C.p[k] + (IF C_count_start(tid) = -1 THEN 0 ELSE C_counts[C_count_start(tid)].a[k])
LastPos(tid, k) ==
    IF C_count_end(tid) = -1 THEN C.p[k + 1]
    ELSE C.p[k] + C_counts[C_count_end(tid)].a[k]

\* the rows of the entries the thread stores for vector k, in the order it
\* stores them, the first at FirstPos (tid, k)
StoredRows(tid, k) ==
    IF k >= cnvec \/ Len(Computing) = 0 \/ FirstPos(tid, k) = LastPos(tid, k)
    THEN << >>
    ELSE ThreadRows(tid, k)

Phase2(tid) ==
    /\ pc = "phase2"
    /\ tpc[tid] = "run"
    /\ \E rows \in {StoredRows(tid, tk[tid])} :
          LET k == tk[tid]
              first == IF Len(rows) = 0 THEN 0 ELSE FirstPos(tid, k)
              kern == Computing[Len(Computing)]
              vals == [n \in 1 .. Len(rows) |-> KernelValue(kern, rows[n], VecOf(k))]
          IN  /\ wlog' = wlog \cup {<<tid, k, first + n - 1>> : n \in 1 .. Len(rows)}
              /\ C' = IF Len(rows) = 0 THEN C
                      ELSE [C EXCEPT
                              !.i = [q \in DOMAIN C.i |->
                                       IF first <= q /\ q < first + Len(rows)
                                       THEN rows[q - first + 1] ELSE C.i[q]],
                              !.x = [q \in DOMAIN C.x |->
                                       IF first <= q /\ q < first + Len(rows)
                                       THEN vals[q - first + 1] ELSE C.x[q]]]
              /\ heap' = [heap EXCEPT !.reads =
                             @ \cup (IF k < cnvec
                                     THEN {C_count_start(tid), C_count_end(tid)} \ {-1}
                                     ELSE {})]
              /\ tk' = [tk EXCEPT ![tid] = k + 1]
              /\ path' = [path EXCEPT ![tid] = {Kernels[n] : n \in 1 .. Len(Kernels)}]
              /\ IF k + 1 >= cnvec
                 THEN /\ tpc' = [tpc EXCEPT ![tid] = "done"]
                      /\ info' = IF Len(Assigning) > 0
                                 THEN KernelStatus(Assigning[Len(Assigning)])
                                 ELSE info
                      /\ infow' = IF Len(Assigning) > 0 THEN infow \cup {tid} ELSE infow
                 ELSE UNCHANGED <<tpc, info, infow>>
    /\ UNCHANGED othervars
    /\ UNCHANGED <<callvars, Chandle, ok, C_counts, pc, ret, mask_applied>>

\* ------------------------------------------------------------------------
\* lines 396-407: after the join, free the workspace and return
\* ------------------------------------------------------------------------

\* the calling thread goes on when its own iteration is done
Phase2Joined_first == tpc[0] = "done"

\* line 394: the end of the second parallel region, where the threads join
Phase2Joined == \A t \in Threads : tpc[t] = "done"

Finish ==
    /\ pc = "phase2"
    /\ Phase2Joined
    /\ LET freed == GB_FREE_ALL(Counts)
       IN  /\ C_counts' = freed.c
           /\ heap' = freed.h
    /\ mask_applied' = IF M.present THEN "true" ELSE "false"
    /\ ret' = "GrB_SUCCESS"
    /\ pc' = "done"
    /\ UNCHANGED othervars
    /\ UNCHANGED <<callvars, Chandle, C, info, ok, tpc, tk, path, wlog, infow>>

vars == <<callvars, dot2vars, othervars>>

Next ==
    \/ Entry
    \/ \E tid \in Threads : Phase1(tid)
    \/ NewC
    \/ CumSum
    \/ FreeFirst
    \/ IxAlloc
    \/ \E tid \in Threads : Phase2(tid)
    \/ Finish

Spec == Init /\ [][Next]_vars

\* unmasked boolean products whose A has RowsVdim vectors, so that a slice
\* can hold two of them beside another slice: every pattern of A, B of one
\* vector, every thread count up to MaxThreads and every slicing
InitRows ==
    /\ nthreads \in 1 .. MaxThreads
    /\ A \in {MakeA(x, VLen, RowsVdim, "bool") :
                x \in Contents(VLen, RowsVdim, RowsVdim, {1})}
    /\ Aslice \in Slicings(nthreads, RowsVdim, 1)
    /\ B \in {MakeB(x, VLen, 1, "bool", hy) :
                x \in Contents(VLen, 1, 1, {1}), hy \in BOOLEAN}
    /\ M = NoMask
    /\ Mask_comp = FALSE
    /\ semiring = "LOR_FIRST_BOOL"
    /\ flipxy = FALSE
    /\ build = DefaultBuild
    /\ CallStart

SpecRows == InitRows /\ [][Next]_vars

\* ------------------------------------------------------------------------
\* callers' inputs with values: square matrices of dimension Dim whose
\* entries hold values that differ from position to position
\* ------------------------------------------------------------------------

DiagCells(n) == {<<k, k>> : k \in 0 .. n - 1}

\* the value stored at A(k,i) and at B(k,j); bool matrices hold both values
ValA(type, k, i) == IF type = "bool" THEN (k + i) % 2 ELSE k + i + 1
ValB(type, k, j) == IF type = "bool" THEN 1 ELSE 2 + k + 3 * j

ValuedA(P, type) == MakeA([c \in P |-> ValA(type, c[1], c[2])], Dim, Dim, type)
ValuedB(P, type) ==
    MakeB([c \in P |-> ValB(type, c[1], c[2])], Dim, Dim, type, FALSE)

\* C<M> = A'*B and C<!M> = A'*B over plus-times: every mask of at most
\* MaxMaskNnz entries, true or false, over a diagonal or a full A and a
\* diagonal B
InitMask ==
    /\ nthreads \in 1 .. MaxThreads
    /\ A \in {ValuedA(P, "fp64") : P \in {DiagCells(Dim), Cells(Dim, Dim)}}
    /\ Aslice \in Slicings(nthreads, Dim, 1)
    /\ B = ValuedB(DiagCells(Dim), "fp64")
    /\ M \in {[present |-> TRUE, x |-> x] : x \in Contents(Dim, Dim, MaxMaskNnz, {0, 1})}
    /\ Mask_comp \in BOOLEAN
    /\ semiring = "PLUS_TIMES_FP64"
    /\ flipxy = FALSE
    /\ build = DefaultBuild
    /\ CallStart

SpecMask == InitMask /\ [][Next]_vars

\* the 3-by-3 identity and diag (2, 3, 4)
Identity3 == MakeA([c \in DiagCells(3) |-> 1], 3, 3, "fp64")
Diag234 == MakeB([c \in DiagCells(3) |-> c[1] + 2], 3, 3, "fp64", FALSE)

\* unmasked products over plus-times and over lor-first: every pattern of A
\* of at most MaxNnz entries, a diagonal or a full B; and the product of the
\* identity and diag (2, 3, 4)
InitValues ==
    /\ nthreads \in 1 .. MaxThreads
    /\ \/ /\ semiring \in {"PLUS_TIMES_FP64", "LOR_FIRST_BOOL"}
          /\ A \in {ValuedA(P, OpType(semiring)) : P \in Patterns(Dim, Dim, MaxNnz)}
          /\ B \in {ValuedB(P, OpType(semiring)) : P \in {DiagCells(Dim), Cells(Dim, Dim)}}
       \/ /\ semiring = "PLUS_TIMES_FP64"
          /\ A = Identity3
          /\ B = Diag234
    /\ Aslice \in Slicings(nthreads, A.vdim, 1)
    /\ M = NoMask
    /\ Mask_comp = FALSE
    /\ flipxy = FALSE
    /\ build = DefaultBuild
    /\ CallStart

SpecValues == InitValues /\ [][Next]_vars

\* the slices of A with nvec_nonempty computed before the call
CachedSlices(sl) ==
    [t \in DOMAIN sl |->
        [sl[t] EXCEPT !.nvec_nonempty = GB_nvec_nonempty(A.x, A.vlen, sl[t].rows)]]

\* B with nvec_nonempty computed before the call
CachedB(b) == [b EXCEPT !.nvec_nonempty = GB_nvec_nonempty(b.x, b.vlen, 0 .. b.vdim - 1)]

\* unmasked boolean products whose inputs come with nvec_nonempty computed or
\* not (-1), and whose output handle holds NULL or a pointer left from
\* earlier
InitFrame ==
    /\ nthreads \in 1 .. MaxThreads
    /\ A \in {MakeA(x, VLen, AVdim, "bool") : x \in Contents(VLen, AVdim, MaxNnz, {1})}
    /\ \E sl \in Slicings(nthreads, AVdim, 1) : Aslice \in {sl, CachedSlices(sl)}
    /\ \E x \in Contents(VLen, BVdim, MaxNnz, {1}) :
          LET b == MakeB(x, VLen, BVdim, "bool", FALSE) IN B \in {b, CachedB(b)}
    /\ M = NoMask
    /\ Mask_comp = FALSE
    /\ semiring = "LOR_FIRST_BOOL"
    /\ flipxy = FALSE
    /\ build = DefaultBuild
    /\ \E h \in {"stale", "NULL"} : CallStartFrom(h)

SpecFrame == InitFrame /\ [][Next]_vars

\* the builds: with or without the hard-coded kernels (GBCOMPACT), the
\* lor_first_bool kernel disabled or not (GB_DISABLE)
Builds == [GBCOMPACT : BOOLEAN, GB_DISABLE : BOOLEAN]

\* unmasked products in every build: a built-in semiring over its own types
\* (lor-first over bool), a built-in and a user-compiled semiring over fp64
\* whose A is fp64 or is int8 and must be typecast
InitKernels ==
    /\ nthreads \in 1 .. MaxThreads
    /\ build \in Builds
    /\ \/ /\ semiring = "LOR_FIRST_BOOL"
          /\ A \in {ValuedA(P, "bool") : P \in {DiagCells(Dim), Cells(Dim, Dim)}}
          /\ B = ValuedB(DiagCells(Dim), "bool")
       \/ /\ semiring \in {"PLUS_TIMES_FP64", "USER_PLUS_TIMES"}
          /\ A \in {ValuedA(Cells(Dim, Dim), ta) : ta \in {"fp64", "int8"}}
          /\ B = ValuedB(DiagCells(Dim), "fp64")
    /\ Aslice \in Slicings(nthreads, Dim, 1)
    /\ M = NoMask
    /\ Mask_comp = FALSE
    /\ flipxy = FALSE
    /\ CallStart

SpecKernels == InitKernels /\ [][Next]_vars

\* the dimensions with a zero among them: vlen of A and B, vdim of A, vdim
\* of B
Degenerate ==
    {d \in (0 .. VLen) \X (0 .. AVdim) \X (0 .. BVdim) : \E n \in 1 .. 3 : d[n] = 0}

\* unmasked boolean products with a degenerate dimension: every content of
\* at most MaxNnz entries the dimensions leave room for, B standard or
\* hypersparse, slices that may hold no vector
InitDegenerate ==
    /\ nthreads \in 1 .. MaxThreads
    /\ \E d \in Degenerate :
          /\ A \in {MakeA(x, d[1], d[2], "bool") : x \in Contents(d[1], d[2], MaxNnz, {1})}
          /\ B \in {MakeB(x, d[1], d[3], "bool", hy) :
                      x \in Contents(d[1], d[3], MaxNnz, {1}), hy \in BOOLEAN}
    /\ Aslice \in Slicings(nthreads, A.vdim, 0)
    /\ M = NoMask
    /\ Mask_comp = FALSE
    /\ semiring = "LOR_FIRST_BOOL"
    /\ flipxy = FALSE
    /\ build = DefaultBuild
    /\ CallStart

SpecDegenerate == InitDegenerate /\ [][Next]_vars

\* ------------------------------------------------------------------------
\* GB_red_scalar__max_int8: s = max of the entries of A
\* (GB_reduce_to_scalar_template.c: one loop when nthreads = 1, else one
\* partial result w [tid] per thread, summed up after the parallel loop)
\* ------------------------------------------------------------------------

GB_IMAX(x, y) == IF x > y THEN x ELSE y

\* GB_REDUCE (t, Ax, p): t = GB_IMAX (t, Ax [p])
GB_REDUCE(t, Ax, p) == GB_IMAX(t, Ax[p + 1])

\* GB_REDUCE_TERMINAL (t): if (s == INT8_MAX) break
GB_REDUCE_TERMINAL(t, s) == s = INT8_MAX

\* GB_PARTITION: the entries pstart .. pend - 1 of thread tid
PartitionStart(anz, tid, nth) == (tid * anz) \div nth

RECURSIVE ReduceLoop(_, _, _, _, _)
\* the loop of one thread over Ax [p .. pend - 1], from the partial result t
ReduceLoop(t, Ax, p, pend, s) ==
    IF p >= pend THEN t
    ELSE LET t2 == GB_REDUCE(t, Ax, p)
         IN  IF GB_REDUCE_TERMINAL(t2, s) THEN t2
             ELSE ReduceLoop(t2, Ax, p + 1, pend, s)

\* line 68: int8_t s = INT8_MIN
RedStart ==
    /\ red.pc = "start"
    /\ red' = [red EXCEPT !.s = INT8_MIN, !.p = 0,
                          !.pc = IF red.nthreads = 1 THEN "seq" ELSE "par"]
    /\ UNCHANGED <<callvars, dot2vars, mkl, cpy, mis, sel>>

\* nthreads = 1, one iteration: GB_REDUCE (s, Ax, p) ; GB_REDUCE_TERMINAL (s)
RedSeqStep ==
    /\ red.pc = "seq"
    /\ red.p < Len(red.Ax)
    /\ LET s2 == GB_REDUCE(red.s, red.Ax, red.p)
       IN  red' = IF GB_REDUCE_TERMINAL(s2, s2)
                  THEN [red EXCEPT !.s = s2, !.pc = "return"]
                  ELSE [red EXCEPT !.s = s2, !.p = @ + 1]
    /\ UNCHANGED <<callvars, dot2vars, mkl, cpy, mis, sel>>

\* nthreads > 1, thread tid: t = INT8_MIN ; its loop ; w [tid] = t
RedThread(tid) ==
    /\ red.pc = "par"
    /\ tid \notin red.ran
    /\ LET anz == Len(red.Ax)
           t == ReduceLoop(INT8_MIN, red.Ax,
                           PartitionStart(anz, tid, red.nthreads),
                           PartitionStart(anz, tid + 1, red.nthreads), red.s)
       IN  red' = [red EXCEPT !.w[tid] = t, !.ran = @ \cup {tid}]
    /\ UNCHANGED <<callvars, dot2vars, mkl, cpy, mis, sel>>

\* the partial result of the thread replaces s
GB_REDUCE_W_last(s, w, tid) == w[tid]

\* GB_REDUCE_W (s, w, tid): s = GB_IMAX (s, w [tid])
GB_REDUCE_W(s, w, tid) == GB_IMAX(s, w[tid])

RECURSIVE ReduceW(_, _, _, _)
\* GB_REDUCE_W (s, w, tid) ; GB_REDUCE_TERMINAL (s) for tid, ..., n - 1
ReduceW(s, w, tid, n) ==
    IF tid >= n THEN s
    ELSE LET s2 == GB_REDUCE_W(s, w, tid)
         IN  IF GB_REDUCE_TERMINAL(s2, s2) THEN s2 ELSE ReduceW(s2, w, tid + 1, n)

\* after the parallel loop: the partial results are summed up
RedSum ==
    /\ red.pc = "par"
    /\ red.ran = DOMAIN red.w
    /\ red' = [red EXCEPT !.s = ReduceW(red.s, red.w, 0, red.nthreads), !.pc = "return"]
    /\ UNCHANGED <<callvars, dot2vars, mkl, cpy, mis, sel>>

\* the end of the loop of one thread, and line 70: (*result) = s
RedReturn ==
    /\ \/ red.pc = "return"
       \/ red.pc = "seq" /\ red.p >= Len(red.Ax)
    /\ red' = [red EXCEPT !.result = red.s, !.pc = "done"]
    /\ UNCHANGED <<callvars, dot2vars, mkl, cpy, mis, sel>>

\* the values of the terms: the identity, the terminal and values between
TermVals == {INT8_MIN, 0, INT8_MAX}

SeqsUpTo(V, n) == UNION {[1 .. m -> V] : m \in 0 .. n}

\* no call of GB_AxB_dot2
NoCall ==
    /\ nthreads = 1
    /\ A = MakeA(<< >>, 0, 0, "bool")
    /\ Aslice = [t \in Threads |-> [rows |-> {}, nvec_nonempty |-> 0]]
    /\ B = MakeB(<< >>, 0, 0, "bool", FALSE)
    /\ M = NoMask /\ Mask_comp = FALSE
    /\ semiring = "LOR_FIRST_BOOL" /\ flipxy = FALSE /\ build = DefaultBuild
    /\ Chandle = "stale" /\ C = NoC /\ info = "uninit" /\ ok = FALSE
    /\ old = [M |-> M, Aslice |-> Aslice, B |-> B, Chandle |-> Chandle]
    /\ C_counts = [t \in Threads |-> [ptr |-> "uninit", a |-> << >>]]
    /\ heap = [nalloc |-> [t \in Threads |-> 0], nfree |-> [t \in Threads |-> 0],
               reads |-> {}, bad |-> {}]
    /\ pc = "idle"
    /\ tpc = [t \in Threads |-> "idle"]
    /\ tk = [t \in Threads |-> 0]
    /\ path = [t \in Threads |-> {}]
    /\ wlog = {} /\ infow = {} /\ ret = "none" /\ mask_applied = "unset"

\* a dot product of up to TermLen terms over a monoid with a terminal value,
\* computed by the hard-coded lor-first kernel or by the generic kernel
\* (lor-first and max-second); or a reduction of up to TermLen entries by
\* GB_red_scalar__max_int8
InitTerminal ==
    \/ /\ nthreads = 1
       /\ \/ /\ semiring = "LOR_FIRST_BOOL"
             /\ build \in {DefaultBuild, [DefaultBuild EXCEPT !.GBCOMPACT = TRUE]}
             /\ A \in {MakeA(x, TermLen, 1, "bool") :
                         x \in Contents(TermLen, 1, TermLen, {0, 1})}
             /\ B = MakeB([c \in Cells(TermLen, 1) |-> 1], TermLen, 1, "bool", FALSE)
          \/ /\ semiring = "MAX_SECOND_INT8"
             /\ build = [DefaultBuild EXCEPT !.GBCOMPACT = TRUE]
             /\ A = MakeA([c \in Cells(TermLen, 1) |-> 1], TermLen, 1, "int8")
             /\ B \in {MakeB(x, TermLen, 1, "int8", FALSE) :
                         x \in Contents(TermLen, 1, TermLen, TermVals)}
       /\ Aslice \in Slicings(nthreads, 1, 1)
       /\ M = NoMask /\ Mask_comp = FALSE /\ flipxy = FALSE
       /\ CallStart
    \/ /\ NoCall
       /\ mkl = NoMkl /\ cpy = NoMemcpy /\ mis = NoMis
       /\ sel = NoSelect
       /\ \E n \in 1 .. MaxThreads, Ax \in SeqsUpTo(TermVals, TermLen) :
             red = [pc |-> "start", Ax |-> Ax, nthreads |-> n, s |-> 0, p |-> 0,
                    w |-> [tid \in 0 .. n - 1 |-> 0], ran |-> {},
                    result |-> "unset"]

NextTerminal ==
    \/ Next
    \/ RedStart
    \/ RedSeqStep
    \/ \E tid \in DOMAIN red.w : RedThread(tid)
    \/ RedSum
    \/ RedReturn

SpecTerminal == InitTerminal /\ [][NextTerminal]_vars

\* ------------------------------------------------------------------------
\* GB_AxB_dot4_mkl: c += A*b by the MKL sparse library.  What MKL returns
\* is not decided here: each call succeeds or fails, and the result z is
\* any vector, NULL included.
\* ------------------------------------------------------------------------

\* the calls made through GB_MKL_OK, in order (lines 94-145)
MklCalls(mult) ==
    <<"vector_create_b", "vector_set_dense", "matrix_create", "matrix_set_csr">>
    \o (IF mult = "SECOND" THEN <<"descriptor_create", "descriptor_set_field">>
        ELSE << >>)
    \o <<"vector_create_z", "mxv", "vector_get_dense">>

\* the object a call creates
MklCreates(call) ==
    CASE call = "vector_create_b" -> {"b_mkl"}
      [] call = "matrix_create" -> {"A_mkl"}
      [] call = "descriptor_create" -> {"mkl_desc"}
      [] call = "vector_create_z" -> {"z_mkl"}
      [] OTHER -> {}

\* GB_type_mkl: the MKL type of a GraphBLAS type
GB_type_mkl(type) == IF type = "fp32" THEN "MKL_GRAPH_TYPE_FP32"
                     ELSE "MKL_GRAPH_TYPE_FP64"

\* the values of c and of z
MklVals == {0, 1}

\* what mkl_graph_vector_get_dense may hand back: Zx, znrows, Zx_type
MklResults ==
    {[st |-> "NULL", x |-> << >>, nrows |-> r, type |-> "MKL_GRAPH_TYPE_FP32"] :
        r \in 0 .. 1}
    \cup {[st |-> "dense", x |-> q, nrows |-> Len(q), type |-> ty] :
             q \in SeqsUpTo(MklVals, MklLen + 1),
             ty \in {"MKL_GRAPH_TYPE_FP32", "MKL_GRAPH_TYPE_FP64"}}

NoResult == [st |-> "unset", x |-> << >>, nrows |-> 0, type |-> "unset"]

\* GB_MKL_OK (method): info = the status of the call; when it is not
\* GrB_SUCCESS, GB_MKL_FREE_ALL and return (info)
MklCall ==
    /\ mkl.pc = "calls"
    /\ LET calls == MklCalls(mkl.mult)
           call == calls[mkl.k]
       IN  \E status \in {"GrB_SUCCESS", "GrB_OUT_OF_MEMORY", "GrB_PANIC"} :
              IF status # "GrB_SUCCESS"
              THEN mkl' = [mkl EXCEPT !.info = status, !.ret = status,
                                      !.live = {}, !.pc = "done"]
              ELSE \E z \in IF call = "vector_get_dense" THEN MklResults
                             ELSE {mkl.z} :
                      mkl' = [mkl EXCEPT !.info = status,
                                         !.live = @ \cup MklCreates(call),
                                         !.z = z,
                                         !.k = @ + 1,
                                         !.pc = IF mkl.k = Len(calls)
                                                THEN "check" ELSE "calls"]
    /\ UNCHANGED <<callvars, dot2vars, red, cpy, mis, sel>>

\* line 148: Zx == NULL || znrows != n
BadResult(z, n) == z.st = "NULL" \/ z.nrows # n

\* the type of the result is accepted whatever it is
WrongType_never(z, ctype) == FALSE

\* line 157: Zx_type != GB_type_mkl (c->type->code)
WrongType(z, ctype) == z.type # GB_type_mkl(ctype)

\* lines 148-164: the two tests of the result
MklCheck ==
    /\ mkl.pc = "check"
    /\ mkl' = IF BadResult(mkl.z, mkl.n)
              THEN [mkl EXCEPT !.live = {}, !.ret = "GrB_NO_VALUE", !.pc = "done"]
              ELSE IF WrongType(mkl.z, mkl.ctype)
              THEN [mkl EXCEPT !.live = {}, !.ret = "GrB_INVALID_VALUE",
                               !.pc = "done"]
              ELSE [mkl EXCEPT !.pc = "saxpy"]
    /\ UNCHANGED <<callvars, dot2vars, red, cpy, mis, sel>>

\* GB_cblas_saxpy (n, 1.0, X, Y): Y += X
GB_cblas_saxpy(n, X, Y) == [i \in 1 .. Len(Y) |-> IF i <= n THEN Y[i] + X[i] ELSE Y[i]]

\* lines 170-180: c += z, free the MKL objects, return (info)
MklSaxpy ==
    /\ mkl.pc = "saxpy"
    /\ mkl' = [mkl EXCEPT !.c = GB_cblas_saxpy(mkl.n, mkl.z.x, mkl.c),
                          !.live = {}, !.ret = mkl.info, !.pc = "done"]
    /\ UNCHANGED <<callvars, dot2vars, red, cpy, mis, sel>>

\* c and b of every length up to MklLen, plus-times and plus-second
InitMkl ==
    /\ NoCall
    /\ red = NoReduce /\ cpy = NoMemcpy /\ mis = NoMis
    /\ sel = NoSelect
    /\ \E n \in 0 .. MklLen, mult \in {"TIMES", "SECOND"} :
          \E c \in [1 .. n -> MklVals] :
             mkl = [pc |-> "calls", n |-> n, c |-> c, c0 |-> c, ctype |-> "fp32",
                    mult |-> mult, k |-> 1, live |-> {}, z |-> NoResult,
                    info |-> "uninit", ret |-> "none"]

NextMkl ==
    \/ MklCall
    \/ MklCheck
    \/ MklSaxpy

SpecMkl == InitMkl /\ [][NextMkl]_vars

\* ------------------------------------------------------------------------
\* GB_memcpy: one memcpy, or one memcpy per chunk of GB_CHUNK bytes by a
\* team of threads that take the chunks one at a time (schedule (dynamic,1))
\* ------------------------------------------------------------------------

\* the first operand, whatever the second
GB_IMIN_left(x, y) == x

GB_IMIN(x, y) == IF x < y THEN x ELSE y

\* memcpy (dest + start, src + start, len); the writes are logged as
\* <<chunk, offset>>
memcpy(c, k, start, len) ==
    [c EXCEPT !.dest = [o \in DOMAIN c.dest |->
                          IF start <= o /\ o < start + len THEN c.src[o]
                          ELSE c.dest[o]],
              !.writes = @ \cup {<<k, o>> : o \in start .. start + len - 1}]

\* the last partial chunk is not counted
Nchunks_floor(n) == n \div GB_CHUNK

\* line 32: nchunks = 1 + (n / GB_CHUNK)
Nchunks(n) == 1 + (n \div GB_CHUNK)

\* lines 25-32: one memcpy, or the team and the number of chunks
CpyStart ==
    /\ cpy.pc = "start"
    /\ cpy' = IF cpy.nthreads <= 1 \/ cpy.n <= GB_CHUNK
              THEN [memcpy(cpy, 0, 0, cpy.n) EXCEPT !.pc = "done"]
              ELSE LET team == GB_IMIN(cpy.nthreads, cpy.n \div GB_CHUNK)
                   IN  [cpy EXCEPT !.team = team,
                                   !.nchunks = Nchunks(cpy.n),
                                   !.next = 0,
                                   !.hold = [tid \in 0 .. team - 1 |-> -1],
                                   !.pc = "par"]
    /\ UNCHANGED <<callvars, dot2vars, red, mkl, mis, sel>>

\* a thread of the team takes the next iteration k of the loop
CpyTake(tid) ==
    /\ cpy.pc = "par"
    /\ cpy.hold[tid] = -1
    /\ cpy.next < cpy.nchunks
    /\ cpy' = [cpy EXCEPT !.hold[tid] = cpy.next, !.next = @ + 1]
    /\ UNCHANGED <<callvars, dot2vars, red, mkl, mis, sel>>

\* lines 37-42: the body of the loop for chunk k
CpyChunk(tid) ==
    /\ cpy.pc = "par"
    /\ cpy.hold[tid] # -1
    /\ LET k == cpy.hold[tid]
           start == k * GB_CHUNK
           chunk == GB_IMIN(cpy.n - start, GB_CHUNK)
           copied == IF start < cpy.n THEN memcpy(cpy, k, start, chunk) ELSE cpy
       IN  cpy' = [copied EXCEPT !.hold[tid] = -1]
    /\ UNCHANGED <<callvars, dot2vars, red, mkl, mis, sel>>

\* the end of the parallel loop
CpyReturn ==
    /\ cpy.pc = "par"
    /\ cpy.next = cpy.nchunks
    /\ \A tid \in DOMAIN cpy.hold : cpy.hold[tid] = -1
    /\ cpy' = [cpy EXCEPT !.pc = "done"]
    /\ UNCHANGED <<callvars, dot2vars, red, mkl, mis, sel>>

\* the bytes of the source differ from those the destination holds
SrcBytes == {1, 2}

\* every n up to MaxBytes, every nthreads from 0 to MaxThreads + 1, every
\* source
InitMemcpy ==
    /\ NoCall
    /\ red = NoReduce /\ mkl = NoMkl /\ mis = NoMis
    /\ sel = NoSelect
    /\ \E n \in 0 .. MaxBytes, nth \in 0 .. MaxThreads + 1,
          src \in [0 .. MaxBytes - 1 -> SrcBytes] :
          cpy = [NoMemcpy EXCEPT !.pc = "start", !.n = n, !.nthreads = nth,
                                 !.src = src,
                                 !.dest = [o \in 0 .. MaxBytes - 1 |-> 0],
                                 !.dest0 = [o \in 0 .. MaxBytes - 1 |-> 0]]

NextMemcpy ==
    \/ CpyStart
    \/ \E tid \in DOMAIN cpy.hold : CpyTake(tid)
    \/ \E tid \in DOMAIN cpy.hold : CpyChunk(tid)
    \/ CpyReturn

SpecMemcpy == InitMemcpy /\ [][NextMemcpy]_vars

\* ------------------------------------------------------------------------
\* mis: a maximal independent set by a variant of Luby's algorithm.  A
\* vector is a function from the indices of its entries to their values
\* (bool is 0/1); A is the set of its entries <<i, j>>, all of them true.
\* ------------------------------------------------------------------------

\* the indices a mask lets through: M(i) stored and true, or the complement
MaskOf(Mk, comp, n) ==
    {i \in 0 .. n - 1 : IF comp THEN ~(i \in DOMAIN Mk /\ Mk[i] # 0)
                                 ELSE i \in DOMAIN Mk /\ Mk[i] # 0}

\* C<M> = T without accumulator: inside the mask C takes the entries of T,
\* outside it C keeps its entries unless the descriptor says GrB_REPLACE
GrB_write(Cold, T, allowed, replace, n) ==
    [i \in {j \in 0 .. n - 1 : IF j \in allowed THEN j \in DOMAIN T
                                 ELSE ~replace /\ j \in DOMAIN Cold}
       |-> IF i \in allowed THEN T[i] ELSE Cold[i]]

SetMax(S) == CHOOSE m \in S : \A x \in S : x <= m

\* GrB_Matrix_reduce_BinaryOp with GrB_PLUS_FP64: the sum of each row with
\* entries
RowSums(Adj, n) ==
    [i \in {k \in 0 .. n - 1 : \E e \in Adj : e[1] = k}
       |-> Cardinality({e \in Adj : e[1] = i})]

\* u*A over the Max-First semiring
vxm_maxSelect1st(u, Adj, n) ==
    [j \in {k \in 0 .. n - 1 : \E i \in DOMAIN u : <<i, k>> \in Adj}
       |-> SetMax({u[i] : i \in {k \in DOMAIN u : <<k, j>> \in Adj}})]

\* no neighbour is found
vxm_Boolean_none(u, Adj, n) == << >>

\* u*A over the Lor-Land semiring
vxm_Boolean(u, Adj, n) ==
    [j \in {k \in 0 .. n - 1 : \E i \in DOMAIN u : <<i, k>> \in Adj}
       |-> IF \E i \in DOMAIN u : <<i, j>> \in Adj /\ u[i] # 0 THEN 1 ELSE 0]

\* the node is selected also when its score ties with a neighbour's
GrB_GT_ortie(x, y) == IF x >= y THEN 1 ELSE 0

\* GrB_GT_FP64
GrB_GT(x, y) == IF x > y THEN 1 ELSE 0

GrB_LOR(x, y) == IF x # 0 \/ y # 0 THEN 1 ELSE 0

\* the typecast of a number to bool
ToBool(x) == IF x # 0 THEN 1 ELSE 0

\* GrB_eWiseAdd into a bool vector: the operator where both have an entry,
\* the entry of the one that has it elsewhere
eWiseAdd_GT(u, v) ==
    [i \in DOMAIN u \cup DOMAIN v |->
        IF i \in DOMAIN u /\ i \in DOMAIN v THEN GrB_GT(u[i], v[i])
        ELSE IF i \in DOMAIN u THEN ToBool(u[i]) ELSE ToBool(v[i])]

eWiseAdd_LOR(u, v) ==
    [i \in DOMAIN u \cup DOMAIN v |->
        IF i \in DOMAIN u /\ i \in DOMAIN v THEN GrB_LOR(u[i], v[i])
        ELSE IF i \in DOMAIN u THEN ToBool(u[i]) ELSE ToBool(v[i])]

AllTrue(S) == [i \in S |-> 1]

\* lines 108-124: the degrees, the candidates (degree != 0), the singletons
\* put into iset, nvals and last_nvals
MisSetup ==
    /\ mis.pc = "start"
    /\ LET n == mis.n
           degrees == RowSums(mis.A, n)
           candidates == GrB_write(<< >>, AllTrue(0 .. n - 1),
                                   MaskOf(degrees, FALSE, n), FALSE, n)
           iset == GrB_write(<< >>, AllTrue(0 .. n - 1),
                             MaskOf(degrees, TRUE, n), TRUE, n)
           nvals == Cardinality(DOMAIN candidates)
       IN  mis' = [mis EXCEPT !.degrees = degrees, !.candidates = candidates,
                              !.iset = iset, !.nvals = nvals,
                              !.last_nvals = nvals, !.pc = "loop"]
    /\ UNCHANGED <<callvars, dot2vars, red, mkl, cpy, sel>>

\* lines 126-155: the first half of an iteration.  The random numbers give
\* each candidate a score above zero.
MisSelect ==
    /\ mis.pc = "loop"
    /\ mis.nvals > 0
    /\ LET n == mis.n
           cand == MaskOf(mis.candidates, FALSE, n)
       IN  \E X \in [cand -> 1 .. NScores] :
              LET score == [i \in DOMAIN mis.degrees \cap DOMAIN X |-> X[i]]
                  prob == GrB_write(mis.prob, score, cand, TRUE, n)
                  neighbor_max == GrB_write(mis.neighbor_max,
                                            vxm_maxSelect1st(prob, mis.A, n),
                                            cand, TRUE, n)
                  new_members == eWiseAdd_GT(prob, neighbor_max)
                  iset == eWiseAdd_LOR(mis.iset, new_members)
                  candidates == GrB_write(mis.candidates, mis.candidates,
                                          MaskOf(new_members, TRUE, n), TRUE, n)
                  nvals == Cardinality(DOMAIN candidates)
              IN  mis' = [mis EXCEPT !.prob = prob,
                                     !.neighbor_max = neighbor_max,
                                     !.new_members = new_members,
                                     !.iset = iset,
                                     !.candidates = candidates,
                                     !.nvals = nvals,
                                     !.rounds = @ + 1,
                                     !.pc = IF nvals = 0 THEN "wrapup"
                                            ELSE "neighbors"]
    /\ UNCHANGED <<callvars, dot2vars, red, mkl, cpy, sel>>

\* the stall is never seen and the loop goes on
stall_never(last_nvals, nvals) == FALSE

\* line 166: if (last_nvals == nvals) { printf ("stall!\n") ; exit (1) ; }
stall(last_nvals, nvals) == last_nvals = nvals

\* lines 157-167: the neighbours of the new members leave the candidates;
\* the program exits when no candidate has left in this iteration
MisNeighbors ==
    /\ mis.pc = "neighbors"
    /\ LET n == mis.n
           new_neighbors == GrB_write(mis.new_neighbors,
                                      vxm_Boolean(mis.new_members, mis.A, n),
                                      MaskOf(mis.candidates, FALSE, n), FALSE, n)
           candidates == GrB_write(mis.candidates, mis.candidates,
                                   MaskOf(new_neighbors, TRUE, n), TRUE, n)
           nvals == Cardinality(DOMAIN candidates)
       IN  mis' = [mis EXCEPT !.new_neighbors = new_neighbors,
                              !.candidates = candidates,
                              !.nvals = nvals,
                              !.last_nvals = IF stall(mis.last_nvals, nvals)
                                             THEN @ ELSE nvals,
                              !.pc = IF stall(mis.last_nvals, nvals)
                                     THEN "exit" ELSE "loop"]
    /\ UNCHANGED <<callvars, dot2vars, red, mkl, cpy, sel>>

\* lines 170-194: the false entries of iset are dropped and iset returned
MisReturn ==
    /\ \/ mis.pc = "wrapup"
       \/ mis.pc = "loop" /\ mis.nvals = 0
    /\ LET iset == GrB_write(mis.iset, mis.iset, MaskOf(mis.iset, FALSE, mis.n),
                             TRUE, mis.n)
       IN  mis' = [mis EXCEPT !.iset = iset, !.iset_output = "iset",
                              !.pc = "done"]
    /\ UNCHANGED <<callvars, dot2vars, red, mkl, cpy, sel>>

\* the symmetric graphs without self-edges on n nodes
Graphs(n) ==
    {E \in SUBSET ((0 .. n - 1) \X (0 .. n - 1)) :
        \A e \in E : e[1] # e[2] /\ <<e[2], e[1]>> \in E}

InitMis ==
    /\ NoCall
    /\ red = NoReduce /\ mkl = NoMkl /\ cpy = NoMemcpy
    /\ sel = NoSelect
    /\ \E n \in 1 .. MisN : \E E \in Graphs(n) :
          mis = [NoMis EXCEPT !.pc = "start", !.n = n, !.A = E]

NextMis ==
    \/ MisSetup
    \/ MisSelect
    \/ MisNeighbors
    \/ MisReturn

SpecMis == InitMis /\ [][NextMis]_vars

\* mis has a next step: it has started and has neither returned nor exited
MisCanStep == mis.pc \in {"start", "loop", "neighbors", "wrapup"}

\* MisCanStep is ENABLED <<NextMis>>_mis
MisCanStepIsEnabled == MisCanStep <=> ENABLED <<NextMis>>_mis

\* mis is one sequential program: it takes its next step whenever it has
\* one.  This is WF_mis(NextMis) with its ENABLED written as MisCanStep.
SpecMisFair == SpecMis /\ ([]<>(~MisCanStep) \/ []<><<NextMis>>_mis)

\* ------------------------------------------------------------------------
\* gbselect: the mexFunction that finds its arguments and calls GxB_select.
\* pargin has nargin entries, 0 .. nargin - 1; str[k] says whether
\* pargin [k] is a string.  reads holds every k for which pargin [k] was
\* read.
\* ------------------------------------------------------------------------

\* the forms of the call, named by their usage messages
Forms == {"op, A, thunk, desc", "Cin, accum, op, A, thunk, desc",
          "Cin, M, op, A, thunk, desc", "Cin, M, accum, op, A, thunk, desc"}

\* what mxIsChar can make of a pointer read beyond the end of pargin
Garbage == {"true", "false", "crash"}

\* mxIsChar (pargin [k]); g is what comes of it when pargin [k] is not an
\* argument of the call
mxIsChar(k, g) == IF k < sel.nargin THEN sel.str[k] ELSE g = "true"

\* lines 61, 77, 97, 116, 137: the form the chain of tests selects
FormOf(g) ==
    IF mxIsChar(0, g) THEN "op, A, thunk, desc"
    ELSE IF mxIsChar(1, g) /\ mxIsChar(2, g)
         THEN "Cin, accum, op, A, thunk, desc"
    ELSE IF mxIsChar(2, g) /\ ~mxIsChar(3, g)
         THEN "Cin, M, op, A, thunk, desc"
    ELSE IF mxIsChar(2, g) /\ mxIsChar(3, g)
         THEN "Cin, M, accum, op, A, thunk, desc"
    ELSE "none"

\* the entries of pargin the chain of tests reads: && does not evaluate its
\* right operand when the left one is false
TestReads(g) ==
    {0} \cup (IF mxIsChar(0, g) THEN {}
              ELSE {1} \cup (IF mxIsChar(1, g) THEN {2} ELSE {})
                       \cup (IF mxIsChar(1, g) /\ mxIsChar(2, g) THEN {}
                             ELSE {2} \cup (IF mxIsChar(2, g) THEN {3} ELSE {})))

\* lines 69, 86, 106, 125: the argument counts a form accepts
Accepts(form) ==
    CASE form = "op, A, thunk, desc" -> {3, 4}
      [] form = "Cin, accum, op, A, thunk, desc" -> {5, 6}
      [] form = "Cin, M, op, A, thunk, desc" -> {5, 6}
      [] form = "Cin, M, accum, op, A, thunk, desc" -> {6, 7}
      [] OTHER -> {}

\* lines 72-74, 89-94, 109-113, 128-134: where the form takes op, A, thunk,
\* Cin, M and accum from
Fetch(form, n) ==
    CASE form = "op, A, thunk, desc" ->
            [NoArgs EXCEPT !.op = 0, !.A = 1,
                           !.thunk = IF n > 3 THEN 2 ELSE -1]
      [] form = "Cin, accum, op, A, thunk, desc" ->
            [NoArgs EXCEPT !.C = 0, !.accum = 1, !.op = 2, !.A = 3,
                           !.thunk = IF n > 5 THEN 4 ELSE -1]
      [] form = "Cin, M, op, A, thunk, desc" ->
            [NoArgs EXCEPT !.C = 0, !.M = 1, !.op = 2, !.A = 3,
                           !.thunk = IF n > 5 THEN 4 ELSE -1]
      [] form = "Cin, M, accum, op, A, thunk, desc" ->
            [NoArgs EXCEPT !.C = 0, !.M = 1, !.accum = 2, !.op = 3, !.A = 4,
                           !.thunk = IF n > 6 THEN 5 ELSE -1]
      [] OTHER -> NoArgs

\* lines 70, 87, 107, 126, 140: the usage message of the form, and of no form
Usage(form) ==
    IF form \in Forms THEN form ELSE "Cin, M, accum, op, A, thunk, desc"

\* the positions of pargin a fetch reads
Fetched(args) ==
    {args.op, args.A, args.thunk, args.C, args.M, args.accum} \ {-1}

\* lines 46-47: gb_usage (nargin >= 3 && nargin <= 7 && nargout <= 1, ...)
SelUsage ==
    /\ sel.pc = "start"
    /\ sel' = IF sel.nargin >= 3 /\ sel.nargin <= 7 /\ sel.nargout <= 1
              THEN [sel EXCEPT !.pc = "descriptor"]
              ELSE [sel EXCEPT !.pc = "error",
                               !.usage = "Cin, M, accum, op, A, thunk, desc"]
    /\ UNCHANGED <<callvars, dot2vars, red, mkl, cpy, mis>>

\* lines 53-59: desc = gb_mxarray_to_descriptor (pargin [nargin-1], ...)
SelDescriptor ==
    /\ sel.pc = "descriptor"
    /\ sel' = [sel EXCEPT !.pc = "find", !.reads = @ \cup {sel.nargin - 1}]
    /\ UNCHANGED <<callvars, dot2vars, red, mkl, cpy, mis>>

\* lines 61-141: the chain of tests, the gb_usage of the form it selects
\* and the fetch of its arguments.  A test that reads beyond the end of
\* pargin gives any answer or ends the process.
SelFind ==
    /\ sel.pc = "find"
    /\ \E g \in Garbage :
          LET form == FormOf(g)
              reads == TestReads(g)
              outside == \E k \in reads : k >= sel.nargin
          IN  /\ g = "true" \/ outside
              /\ sel' =
                   IF outside /\ g = "crash"
                   THEN [sel EXCEPT !.pc = "crashed",
                                    !.reads = @ \cup reads]
                   ELSE IF sel.nargin \in Accepts(form)
                   THEN [sel EXCEPT !.pc = "select", !.form = form,
                                    !.args = Fetch(form, sel.nargin),
                                    !.reads = @ \cup reads
                                        \cup Fetched(Fetch(form, sel.nargin))]
                   ELSE [sel EXCEPT !.pc = "error", !.form = form,
                                    !.usage = Usage(form),
                                    !.reads = @ \cup reads]
    /\ UNCHANGED <<callvars, dot2vars, red, mkl, cpy, mis>>

\* lines 150-203: C is made if absent, GxB_select is called, C is exported
SelSelect ==
    /\ sel.pc = "select"
    /\ sel' = [sel EXCEPT !.pc = "done", !.called = TRUE]
    /\ UNCHANGED <<callvars, dot2vars, red, mkl, cpy, mis>>

\* every nargin up to MaxNargin, nargout up to 2, every pattern of strings
InitSelect ==
    /\ NoCall
    /\ red = NoReduce /\ mkl = NoMkl /\ cpy = NoMemcpy /\ mis = NoMis
    /\ \E n \in 0 .. MaxNargin, out \in 0 .. 2 :
          \E str \in [0 .. n - 1 -> BOOLEAN] :
             sel = [NoSelect EXCEPT !.pc = "start", !.nargin = n,
                                    !.nargout = out, !.str = str]

NextSelect ==
    \/ SelUsage
    \/ SelDescriptor
    \/ SelFind
    \/ SelSelect

SpecSelect == InitSelect /\ [][NextSelect]_vars

\* ------------------------------------------------------------------------
\* the saxpy3 method for one column C(:,j) = A'*B(:,j): every entry B(k,j),
\* in ascending k, scatters the column k of A' into a workspace, which is
\* then gathered
\* ------------------------------------------------------------------------

HASH_FACTOR == 107

RECURSIVE Flatten(_)
Flatten(ss) == IF Len(ss) = 0 THEN << >> ELSE Head(ss) \o Flatten(Tail(ss))

\* the rows i of column k of A', in ascending order
SaxpyColumn(k) == SortedSeq({i \in 0 .. A.vdim - 1 : <<k, i>> \in DOMAIN A.x})

\* the updates <<i, t>> of column j in the order they are made, t the
\* product of A'(i,k) and B(k,j)
SaxpyMult(k, i, j) ==
    IF semiring = "LOR_FIRST_BOOL" THEN lor_first_MULT(A.x[<<k, i>>], 0)
    ELSE GB_MULTIPLY(GB_GETA(k, i), GB_GETB(k, j))

SaxpyUpdates(j) ==
    LET ks == SortedSeq(VecRows(B.x, B.vlen, j))
    IN  Flatten([n \in 1 .. Len(ks) |->
                   LET col == SaxpyColumn(ks[n])
                   IN  [m \in 1 .. Len(col) |->
                          <<col[m], SaxpyMult(ks[n], col[m], j)>>]])

SaxpyWrite(t) == IF semiring = "LOR_FIRST_BOOL" THEN lor_first_HX_WRITE(t) ELSE t
SaxpyUpdate(hx, t) ==
    IF semiring = "LOR_FIRST_BOOL" THEN lor_first_HX_UPDATE(hx, t)
    ELSE fadd(AddOp(semiring), hx, t)

RECURSIVE Gustavson(_, _, _)
\* the dense workspace: Hf [i] marks row i, Hx [i] holds its value
Gustavson(H, ups, n) ==
    IF n > Len(ups) THEN H
    ELSE LET i == ups[n][1]
             t == ups[n][2]
         IN  Gustavson([H EXCEPT ![i] =
                          IF H[i].f = 0 THEN [f |-> 1, x |-> SaxpyWrite(t)]
                          ELSE [f |-> 1, x |-> SaxpyUpdate(H[i].x, t)]],
                       ups, n + 1)

Saxpy3Gustavson(j) ==
    LET H == Gustavson([i \in 0 .. A.vdim - 1 |-> [f |-> 0, x |-> 0]],
                       SaxpyUpdates(j), 1)
    IN  {<<i, H[i].x>> : i \in {r \in DOMAIN H : H[r].f = 1}}

RECURSIVE PowerOfTwo(_, _)
\* the least power of two, from p on, that is at least n
PowerOfTwo(p, n) == IF p >= n THEN p ELSE PowerOfTwo(2 * p, n)

\* the table has at least twice as many slots as the column has updates
HashSize(j) == PowerOfTwo(2, 2 * Len(SaxpyUpdates(j)))

RECURSIVE HashProbe(_, _, _, _)
\* the slot of row i: the first, from its hash on, that holds i or is empty
HashProbe(H, size, h, i) ==
    IF H[h].f = 0 \/ H[h].f = i + 1 THEN h
    ELSE HashProbe(H, size, (h + 1) % size, i)

RECURSIVE HashTable(_, _, _, _)
\* the hash table: Hf [h] = i + 1 when the slot holds row i, Hx [h] its value
HashTable(H, size, ups, n) ==
    IF n > Len(ups) THEN H
    ELSE LET i == ups[n][1]
             t == ups[n][2]
             h == HashProbe(H, size, (i * HASH_FACTOR) % size, i)
         IN  HashTable([H EXCEPT ![h] =
                          IF H[h].f = 0 THEN [f |-> i + 1, x |-> SaxpyWrite(t)]
                          ELSE [f |-> i + 1, x |-> SaxpyUpdate(H[h].x, t)]],
                       size, ups, n + 1)

Saxpy3Hash(j) ==
    LET size == HashSize(j)
        H == HashTable([h \in 0 .. size - 1 |-> [f |-> 0, x |-> 0]],
                       size, SaxpyUpdates(j), 1)
    IN  {<<H[h].f - 1, H[h].x>> : h \in {r \in DOMAIN H : H[r].f # 0}}

\* ------------------------------------------------------------------------
\* the properties of the two-phase construction
\* ------------------------------------------------------------------------

\* every thread has finished phase 2 (before or after the final return)
Filled ==
    \/ pc = "phase2" /\ \A t \in Threads : tpc[t] = "done"
    \/ pc = "done" /\ C.st = "allocated"

WritesIn(k) == {w \in wlog : w[2] = k}

\* the sum over the threads of the phase-1 counts of vector k
Phase1Total(k) == SumTo([t \in Threads |-> CountSlice(t)[k]], nthreads)

\* C1: no phase-2 write of vector k falls outside [Cp[k], Cp[k+1]); once the
\* threads have finished, the number of entries written into vector k is the
\* sum of the phase-1 counts of k and is Cp[k+1]-Cp[k], and the cnz = Cp[cnvec]
\* allocated positions are exactly the positions written
C1_CountsMatchWrites ==
    /\ \A w \in wlog : C.p[w[2]] <= w[3] /\ w[3] < C.p[w[2] + 1]
    /\ Filled =>
          /\ \A k \in 0 .. cnvec - 1 :
                /\ Cardinality(WritesIn(k)) = Phase1Total(k)
                /\ Cardinality(WritesIn(k)) = C.p[k + 1] - C.p[k]
          /\ C.nzmax = C.p[cnvec]
          /\ {w[3] : w \in wlog} = 0 .. C.p[cnvec] - 1

\* two threads have each written an entry into the same vector, and a later
\* vector holds entries too
C1_Witness ==
    /\ Filled
    /\ \E k \in 0 .. cnvec - 1 : \E w1, w2 \in WritesIn(k) : w1[1] # w2[1]
    /\ \E w1, w2 \in wlog : w1[2] # w2[2]

\* C2: in phase 2 thread tid writes vector k only at positions from
\* Cp[k]+C_counts[tid][k] up to but not including Cp[k]+C_counts[tid+1][k]
\* (Cp[k] for thread 0, Cp[k+1] for the last thread); no position is written
\* by two threads, and in the end every position of [0, cnz) has one writer
C2_DisjointWriteRanges ==
    /\ pc = "phase2" =>
          \A w \in wlog :
             LET t == w[1]
                 k == w[2]
             IN  /\ C.p[k] + (IF t = 0 THEN 0 ELSE C_counts[t].a[k]) <= w[3]
                 /\ w[3] < (IF t = nthreads - 1 THEN C.p[k + 1]
                            ELSE C.p[k] + C_counts[t + 1].a[k])
    /\ \A w1, w2 \in wlog : w1[3] = w2[3] => w1[1] = w2[1]
    /\ Filled =>
          \A q \in 0 .. C.p[cnvec] - 1 :
             Cardinality({w[1] : w \in {v \in wlog : v[3] = q}}) = 1

\* phase 2 is under way: one thread has written into a vector the other has
\* not handled yet
C2_Witness ==
    /\ pc = "phase2"
    /\ \E t1, t2 \in Threads :
          /\ t1 # t2
          /\ tpc[t1] = "done" /\ tpc[t2] = "run" /\ tk[t2] = 0
          /\ \E w \in wlog : w[1] = t1 /\ CountSlice(t2)[w[2]] > 0

\* C3: a return with a status other than GrB_SUCCESS leaves *Chandle NULL
C3_FailedCallNullHandle ==
    (pc = "done" /\ ret # "GrB_SUCCESS") => Chandle = "NULL"

\* C4: when the count of some thread failed, phase 2 never starts and the
\* call returns a status other than GrB_SUCCESS
C4_CountFailureFailsCall ==
    (pc # "entry" /\ ~ok) =>
        /\ pc \in {"phase1", "done"}
        /\ wlog = {}
        /\ pc = "done" => ret # "GrB_SUCCESS"

\* the entries of C as <<row, column, value>>
ColOf(q) == VecOf(CHOOSE k \in 0 .. cnvec - 1 : C.p[k] <= q /\ q < C.p[k + 1])
EntriesOfC == {<<C.i[q], ColOf(q), C.x[q]>> : q \in 0 .. C.p[cnvec] - 1}

\* the entries one thread computes over all the vectors of A
OneThreadEntries ==
    {<<c[1], c[2], KernelValue(Computing[Len(Computing)], c[1], c[2])>> :
        c \in {d \in (0 .. A.vdim - 1) \X {VecOf(k) : k \in 0 .. cnvec - 1} :
                 cij_exists(d[1], d[2])}}

\* the threads that stored an entry of row i in vector k
WritersOf(i, k) == {w[1] : w \in {v \in WritesIn(k) : C.i[v[3]] = i}}

\* C5: every row of C is in exactly one slice, every entry of C is computed
\* by exactly one thread, and the entries produced with nthreads threads are
\* those one thread produces
C5_SameEntriesAsOneThread ==
    /\ \A i \in 0 .. A.vdim - 1 :
          Cardinality({t \in Threads : i \in Aslice[t].rows}) = 1
    /\ Filled =>
          /\ \A k \in 0 .. cnvec - 1 : \A i \in 0 .. A.vdim - 1 :
                Cardinality(WritersOf(i, k)) =
                    (IF cij_exists(i, VecOf(k)) THEN 1 ELSE 0)
          /\ EntriesOfC = OneThreadEntries

\* a call of two threads has returned a matrix with entries of both
C5_Witness ==
    /\ pc = "done" /\ ret = "GrB_SUCCESS" /\ C.st = "allocated"
    /\ nthreads > 1
    /\ \E e1, e2 \in EntriesOfC :
          \E t1, t2 \in Threads :
             t1 # t2 /\ e1[1] \in Aslice[t1].rows /\ e2[1] \in Aslice[t2].rows

\* C10: a count array is allocated at most once and freed at most once, never
\* freed unless allocated; when the call returns every allocated array has
\* been freed; the array of thread 0 is freed before phase 2 and phase 2
\* reads only arrays that have not been freed
C10_CountArraysFreedOnce ==
    /\ heap.bad = {}
    /\ \A t \in Threads :
          /\ heap.nfree[t] <= heap.nalloc[t] /\ heap.nalloc[t] <= 1
          /\ (C_counts[t].ptr = "alloc") = (heap.nalloc[t] = 1 /\ heap.nfree[t] = 0)
          /\ pc = "done" => heap.nfree[t] = heap.nalloc[t]
    /\ pc = "phase2" =>
          /\ heap.nalloc[0] = 1 /\ heap.nfree[0] = 1
          /\ \A t \in heap.reads : heap.nfree[t] = 0

\* a call has returned after freeing the arrays of two threads on the
\* success path, the first of them before phase 2
C10_Witness ==
    /\ pc = "done" /\ ret = "GrB_SUCCESS" /\ C.st = "allocated"
    /\ nthreads > 1
    /\ \A t \in Threads : heap.nalloc[t] = 1 /\ heap.nfree[t] = 1
    /\ heap.reads # {}

\* ------------------------------------------------------------------------
\* the product the call is to compute
\* ------------------------------------------------------------------------

RECURSIVE SetSum(_, _)
\* the sum of f [k] over the k in S
SetSum(f, S) == IF S = {} THEN 0
                ELSE LET k == CHOOSE m \in S : TRUE IN f[k] + SetSum(f, S \ {k})

\* the value of (A'*B)(i,j): the sum of the products, or the disjunction of
\* the entries of A for lor-first
RefValue(i, j) ==
    IF AddOp(semiring) = "PLUS"
    THEN SetSum([k \in Ks(i, j) |-> A.x[<<k, i>>] * B.x[<<k, j>>]], Ks(i, j))
    ELSE IF \E k \in Ks(i, j) : A.x[<<k, i>>] # 0 THEN 1 ELSE 0

\* the entries of the unmasked product
RefProduct ==
    {<<c[1], c[2], RefValue(c[1], c[2])>> :
        c \in {d \in Cells(A.vdim, B.vdim) : Ks(d[1], d[2]) # {}}}

\* M(i,j) is stored and true
MaskSelects(i, j) == <<i, j>> \in DOMAIN M.x /\ M.x[<<i, j>>] # 0

Positions(E) == {<<e[1], e[2]>> : e \in E}

\* C6: the entries of the masked product are the entries of the unmasked
\* product at the positions M selects, or does not select when Mask_comp,
\* with the same values; a mask with the single true entry (1,1), not
\* complemented, leaves only (1,1) of a product that has (0,0) and (1,1)
C6_MaskedIsUnmaskedSelected ==
    (Filled /\ M.present) =>
        /\ EntriesOfC =
              {e \in RefProduct : MaskSelects(e[1], e[2]) = ~Mask_comp}
        /\ (/\ ~Mask_comp
            /\ M.x = (<<1, 1>> :> 1)
            /\ {<<0, 0>>, <<1, 1>>} \subseteq Positions(RefProduct))
           => Positions(EntriesOfC) = {<<1, 1>>}

\* the call with the mask of the single true entry (1,1) has returned
C6_Witness ==
    /\ pc = "done" /\ ret = "GrB_SUCCESS" /\ C.st = "allocated"
    /\ mask_applied = "true"
    /\ ~Mask_comp
    /\ M.x = (<<1, 1>> :> 1)
    /\ {<<0, 0>>, <<1, 1>>} \subseteq Positions(RefProduct)
    /\ Positions(EntriesOfC) = {<<1, 1>>}

\* the call with a complemented mask has returned entries
C6_WitnessComp ==
    /\ pc = "done" /\ ret = "GrB_SUCCESS" /\ C.st = "allocated"
    /\ Mask_comp /\ M.x # << >> /\ EntriesOfC # {}
    /\ EntriesOfC # RefProduct

\* C7: over plus-times C has an entry at (i,j) exactly when some k has both
\* A(k,i) and B(k,j), and its value is the sum of the products over those k;
\* the identity times diag (2, 3, 4) is diag (2, 3, 4), with 3 entries
C7_PlusTimesIsReference ==
    (Filled /\ ~M.present /\ semiring = "PLUS_TIMES_FP64") =>
        /\ EntriesOfC = RefProduct
        /\ (A.x = Identity3.x /\ B.x = Diag234.x) =>
              /\ EntriesOfC = {<<0, 0, 2>>, <<1, 1, 3>>, <<2, 2, 4>>}
              /\ C.p[cnvec] = 3

\* a returned product has an entry that is the sum of two products
C7_Witness ==
    /\ pc = "done" /\ ret = "GrB_SUCCESS" /\ C.st = "allocated"
    /\ semiring = "PLUS_TIMES_FP64"
    /\ \E e \in EntriesOfC : Cardinality(Ks(e[1], e[2])) >= 2

\* the product of the identity and diag (2, 3, 4) has been returned
C7_WitnessIdentity ==
    /\ pc = "done" /\ ret = "GrB_SUCCESS" /\ C.st = "allocated"
    /\ A.x = Identity3.x /\ B.x = Diag234.x
    /\ C.p[cnvec] = 3

\* the <<row, value>> pairs of vector k of C
VectorOfC(k) == {<<C.i[q], C.x[q]>> : q \in C.p[k] .. C.p[k + 1] - 1}

\* C8: for every column of the unmasked product, the <<row, value>> pairs
\* dot2 stores are those saxpy3 computes, with the dense workspace and with
\* the hash table
C8_Dot2EqualsSaxpy3 ==
    (Filled /\ ~M.present) =>
        \A k \in 0 .. cnvec - 1 :
           /\ VectorOfC(k) = Saxpy3Gustavson(VecOf(k))
           /\ VectorOfC(k) = Saxpy3Hash(VecOf(k))

\* a returned lor-first product has a true entry computed from two entries
\* of A, the first of them false
C8_Witness ==
    /\ pc = "done" /\ ret = "GrB_SUCCESS" /\ C.st = "allocated"
    /\ semiring = "LOR_FIRST_BOOL"
    /\ \E k \in 0 .. cnvec - 1 :
          \E e \in VectorOfC(k) :
             /\ e[2] = 1
             /\ Cardinality(Ks(e[1], VecOf(k))) >= 2
             /\ A.x[<<Min(Ks(e[1], VecOf(k))), e[1]>>] = 0
             /\ Len(SaxpyUpdates(VecOf(k))) >= 2

RECURSIVE ScanAll(_, _, _, _, _)
\* the dot product over all the terms, without early exit
ScanAll(cij, ks, n, i, j) ==
    IF n > Len(ks) THEN cij
    ELSE ScanAll(fadd(AddOp(semiring), cij,
                      fmult(MultOp(semiring), GB_GETA(ks[n], i), GB_GETB(ks[n], j))),
                 ks, n + 1, i, j)

FullScan(i, j) ==
    LET ks == SortedSeq(Ks(i, j))
    IN  ScanAll(fmult(MultOp(semiring), GB_GETA(ks[1], i), GB_GETB(ks[1], j)),
                ks, 2, i, j)

RECURSIVE MaxAll(_, _)
\* the maximum of INT8_MIN and the first n entries
MaxAll(Ax, n) == IF n = 0 THEN INT8_MIN
                 ELSE LET m == MaxAll(Ax, n - 1) IN IF Ax[n] > m THEN Ax[n] ELSE m

\* the terminal value is reached before the last term of C(i,j)
StoppedEarly(i, j) ==
    LET ks == SortedSeq(Ks(i, j))
    IN  /\ Len(ks) >= 2
        /\ HasTerminal(AddOp(semiring))
        /\ fmult(MultOp(semiring), GB_GETA(ks[1], i), GB_GETB(ks[1], j))
             = Terminal(AddOp(semiring))

\* C9: the value a dot product stores, computed with the early exit at the
\* terminal value (true for lor, INT8_MAX for max, compared bytewise in the
\* generic kernel), is the value of the scan of all its terms; the result of
\* the reduction by max over int8, which stops at INT8_MAX, is the maximum of
\* all the entries
C9_EarlyExitSameValue ==
    /\ Filled => \A e \in EntriesOfC : e[3] = FullScan(e[1], e[2])
    /\ red.pc = "done" => red.result = MaxAll(red.Ax, Len(red.Ax))

\* the generic kernel has returned a max-second dot product whose first term
\* is INT8_MAX and whose later terms were not scanned
C9_Witness ==
    /\ pc = "done" /\ ret = "GrB_SUCCESS" /\ C.st = "allocated"
    /\ semiring = "MAX_SECOND_INT8"
    /\ \A t \in Threads : path[t] = {"generic"}
    /\ \E e \in EntriesOfC : StoppedEarly(e[1], e[2]) /\ e[3] = INT8_MAX

\* the hard-coded kernel has returned a lor-first dot product whose first
\* term is true
C9_WitnessLor ==
    /\ pc = "done" /\ ret = "GrB_SUCCESS" /\ C.st = "allocated"
    /\ semiring = "LOR_FIRST_BOOL"
    /\ \A t \in Threads : path[t] = {"builtin"}
    /\ \E e \in EntriesOfC : StoppedEarly(e[1], e[2]) /\ e[3] = 1

\* the reduction with one thread has stopped before the last entry
C9_WitnessReduce ==
    /\ red.pc = "done" /\ red.nthreads = 1
    /\ red.p + 1 < Len(red.Ax)
    /\ red.result = INT8_MAX

\* C11: when the call has returned, with success or not, the mask, every
\* slice of A and B hold what they held when the call started, the cached
\* nvec_nonempty included
C11_InputsUnmodified ==
    pc = "done" => (M = old.M /\ Aslice = old.Aslice /\ B = old.B)

\* what the call leaves alone when nvec_nonempty was computed before it
C11_InputsWithCacheUnmodified ==
    (/\ pc = "done"
     /\ old.B.nvec_nonempty >= 0
     /\ \A t \in Threads : old.Aslice[t].nvec_nonempty >= 0)
        => (M = old.M /\ Aslice = old.Aslice /\ B = old.B)

\* C12: when the call has failed, *Chandle holds what it held when the call
\* started
C12_FailedCallKeepsHandle ==
    (pc = "done" /\ ret # "GrB_SUCCESS") => Chandle = old.Chandle

\* C13: an entry of C is written only in phase 2, when the index and value
\* arrays are allocated, Cp is the cumulative sum of the phase-1 totals of
\* all the threads and the count arrays hold the prefix sums over the
\* threads; and the call has returned only when no thread is still inside
\* a parallel region
C13_PhasesInOrder ==
    /\ wlog # {} =>
          /\ pc \in {"phase2", "done"}
          /\ C.st = "allocated"
          /\ DOMAIN C.i = 0 .. cnz - 1 /\ DOMAIN C.x = 0 .. cnz - 1
          /\ C.p = GB_cumsum([k \in 0 .. cnvec - 1 |-> Phase1Total(k)], cnvec)
          /\ pc = "phase2" =>
                \A t \in Threads \ {0} :
                   /\ C_counts[t].ptr = "alloc"
                   /\ \A k \in 0 .. cnvec - 1 :
                         C_counts[t].a[k] =
                            SumTo([u \in Threads |-> CountSlice(u)[k]], t)
    /\ pc \notin {"phase2", "done"} => \A q \in DOMAIN C.i : C.i[q] = -1
    /\ pc = "done" => \A t \in Threads : tpc[t] \notin {"count", "run"}

\* two threads in phase 2: one has written an entry while the other has not
\* finished, and the call has not returned
C13_Witness ==
    /\ pc = "phase2" /\ nthreads = 2 /\ ret = "none"
    /\ \E t, u \in Threads :
          /\ t # u /\ tpc[t] = "done" /\ tpc[u] = "run"
          /\ \E w \in wlog : w[1] = t

\* the status the kernel called for thread tid has returned
StatusOf(tid) == {KernelStatus(kn) : kn \in path[tid] \ {"generic"}}

\* C14: when a kernel called in phase 2 has returned a status that is not
\* GrB_SUCCESS, the call returns a status that is not GrB_SUCCESS
C14_KernelStatusPropagates ==
    (pc = "done" /\ \E tid \in Threads : StatusOf(tid) \ {"GrB_SUCCESS"} # {})
        => ret # "GrB_SUCCESS"

\* the one path the code selects for a thread
SelectedPath ==
    IF ~build.GBCOMPACT /\ SemiringBuiltin THEN "builtin"
    ELSE IF UserKernelApplies THEN "user"
    ELSE "generic"

\* what holds of the selection alone: one path per thread, the generic one
\* exactly when no kernel was called
C15_ExactlyOnePath ==
    \A tid \in Threads :
       tpc[tid] = "done" =>
          /\ path[tid] = {SelectedPath}
          /\ "generic" \in path[tid] <=> path[tid] \cap {"builtin", "user"} = {}

\* C15: a thread that has finished phase 2 went through exactly one of the
\* three paths, the generic one exactly when no kernel was called, and
\* every entry of its slice was computed: it has written as many entries of
\* each vector as it counted
C15_SliceComputedOnce ==
    \A tid \in Threads :
       tpc[tid] = "done" =>
          /\ path[tid] = {SelectedPath}
          /\ "generic" \in path[tid] <=> path[tid] \cap {"builtin", "user"} = {}
          /\ pc = "phase2" =>
                \A k \in 0 .. cnvec - 1 :
                   Cardinality({w \in wlog : w[1] = tid /\ w[2] = k})
                      = CountSlice(tid)[k]

\* A or B has no row or no column
DegenerateDims == A.vlen = 0 \/ A.vdim = 0 \/ B.vdim = 0

C16_WitnessNoColumn ==
    /\ pc = "done" /\ ret = "GrB_SUCCESS" /\ C.st = "allocated"
    /\ B.vdim = 0 /\ DOMAIN A.x # {}
    /\ DOMAIN C.p = {0}

\* C17: when GB_red_scalar__max_int8 has returned, *result is the greatest
\* of all the entries of A, and INT8_MIN when A has none, whatever the
\* number of threads and the entries each of them was given
C17_ReduceIsMaximum ==
    red.pc = "done" =>
       /\ Len(red.Ax) = 0 => red.result = INT8_MIN
       /\ Len(red.Ax) > 0 =>
             /\ \E p \in 1 .. Len(red.Ax) : red.result = red.Ax[p]
             /\ \A p \in 1 .. Len(red.Ax) : red.result >= red.Ax[p]

\* two threads have reduced at least two entries, the greatest of which was
\* not in the part of the last thread
C17_Witness ==
    /\ red.pc = "done" /\ red.nthreads = 2 /\ red.ran = {0, 1}
    /\ Len(red.Ax) >= 2
    /\ red.w[0] > red.w[1]
    /\ red.result = red.w[0]

\* more threads than entries: a thread with no entry leaves the identity
C17_WitnessIdle ==
    /\ red.pc = "done" /\ red.nthreads > Len(red.Ax)
    /\ \E tid \in red.ran : red.w[tid] = INT8_MIN
    /\ Len(red.Ax) > 0 /\ red.result > INT8_MIN

\* C18: c holds what it held before the call until the final c += z; when
\* the call has returned an error it still does.  A NULL result or one of
\* another length than n gives GrB_NO_VALUE, a result of the wrong type
\* GrB_INVALID_VALUE, and a failed MKL call its own status; on success c is
\* the old c plus z
C18_ErrorLeavesC ==
    /\ mkl.pc \in {"calls", "check", "saxpy"} => mkl.c = mkl.c0
    /\ mkl.pc = "done" =>
          /\ mkl.ret # "GrB_SUCCESS" => mkl.c = mkl.c0
          /\ mkl.z.st # "unset" =>
                /\ BadResult(mkl.z, mkl.n) => mkl.ret = "GrB_NO_VALUE"
                /\ (~BadResult(mkl.z, mkl.n)
                      /\ mkl.z.type # "MKL_GRAPH_TYPE_FP32")
                      => mkl.ret = "GrB_INVALID_VALUE"
          /\ mkl.z.st = "unset" => mkl.ret \in {"GrB_OUT_OF_MEMORY", "GrB_PANIC"}
          /\ mkl.ret = "GrB_SUCCESS" =>
                mkl.c = [i \in 1 .. mkl.n |-> mkl.c0[i] + mkl.z.x[i]]

\* MKL has returned a result of the right length and the wrong type for a c
\* with entries, and the call has returned
C18_Witness ==
    /\ mkl.pc = "done" /\ mkl.n > 0
    /\ mkl.z.st = "dense" /\ mkl.z.nrows = mkl.n
    /\ mkl.z.type = "MKL_GRAPH_TYPE_FP64"
    /\ \E i \in 1 .. mkl.n : mkl.z.x[i] # 0
    /\ mkl.ret = "GrB_INVALID_VALUE"

\* the success path has changed c
C18_WitnessSuccess ==
    /\ mkl.pc = "done" /\ mkl.ret = "GrB_SUCCESS" /\ mkl.c # mkl.c0

\* MKL has returned a result of another length
C18_WitnessLength ==
    /\ mkl.pc = "done" /\ mkl.z.st = "dense" /\ mkl.z.nrows # mkl.n
    /\ mkl.ret = "GrB_NO_VALUE"

\* C19: no byte of dest at offset n or beyond is ever written and no byte is
\* written by two chunks; when GB_memcpy has returned, the first n bytes of
\* dest are the first n bytes of src and the others are as they were
C19_MemcpyCopiesN ==
    /\ \A w \in cpy.writes : w[2] < cpy.n
    /\ \A w, v \in cpy.writes : w[2] = v[2] => w[1] = v[1]
    /\ cpy.pc = "done" =>
          \A o \in DOMAIN cpy.dest :
             cpy.dest[o] = IF o < cpy.n THEN cpy.src[o] ELSE cpy.dest0[o]

\* n is a multiple of the chunk size, more than one chunk, and nthreads is
\* larger than the number of chunks: the loop has run one iteration more
\* than there are chunks, with fewer threads than asked for
C19_Witness ==
    /\ cpy.pc = "done"
    /\ cpy.n = 2 * GB_CHUNK
    /\ cpy.nthreads > cpy.n \div GB_CHUNK
    /\ cpy.team = 2 /\ cpy.nchunks = 3 /\ cpy.next = 3
    /\ Cardinality(cpy.writes) = cpy.n

\* n is not a multiple of the chunk size: the last chunk is shorter
C19_WitnessTail ==
    /\ cpy.pc = "done" /\ cpy.nchunks > 1
    /\ cpy.n % GB_CHUNK # 0
    /\ cpy.n < MaxBytes

\* n = 0: nothing is written
C19_WitnessZero ==
    /\ cpy.pc = "done" /\ cpy.n = 0 /\ cpy.nthreads > 1 /\ cpy.writes = {}

\* the nodes i with iset(i) = true
Members == {i \in DOMAIN mis.iset : mis.iset[i] # 0}

\* C20: when mis has returned, no two members of iset are adjacent and every
\* node that is not a member has a neighbour that is
C20_MaximalIndependentSet ==
    mis.pc = "done" =>
       /\ \A i, j \in Members : <<i, j>> \notin mis.A
       /\ \A i \in (0 .. mis.n - 1) \ Members :
             \E j \in Members : <<i, j>> \in mis.A

\* mis has returned after more than one iteration, with a member chosen in
\* the loop and a node left out
C20_Witness ==
    /\ mis.pc = "done" /\ mis.rounds >= 2
    /\ \E i \in Members : i \in DOMAIN mis.degrees
    /\ Members # 0 .. mis.n - 1

\* a singleton and an edge: the singleton is a member from the start
C20_WitnessSingleton ==
    /\ mis.pc = "done" /\ mis.A # {}
    /\ \E i \in Members : i \notin DOMAIN mis.degrees

\* scores that tie make the program exit
C20_WitnessStall == mis.pc = "exit"

\* the step that ends a full iteration, and the steps after the exit
IterationShrinksOrStalls ==
    /\ (mis.pc = "neighbors") =>
          \/ /\ mis'.pc = "loop"
             /\ mis'.nvals < mis.last_nvals
             /\ mis'.last_nvals = mis'.nvals
          \/ /\ mis'.pc = "exit"
             /\ mis'.nvals = mis.last_nvals
    /\ (mis.pc = "exit") => (mis'.pc = "exit")

\* C21: the main loop of mis never runs forever.  An iteration that runs to
\* its end either goes back to the test of the loop with fewer candidates
\* than last_nvals held, or is the stall that exits the program in that
\* same iteration; after the exit nothing of mis runs; and every run ends
\* returned or exited.
C21_LoopShrinksOrStalls ==
    /\ [][IterationShrinksOrStalls]_vars
    /\ <>(mis.pc \in {"done", "exit"})

\* a full iteration has left candidates, fewer than before, for a next one
C21_Witness ==
    /\ mis.pc = "loop"
    /\ mis.rounds >= 1
    /\ mis.nvals > 0
    /\ mis.nvals < Cardinality(DOMAIN mis.degrees)

\* the stall: an iteration has taken no candidate away
C21_WitnessStall ==
    /\ mis.pc = "exit"
    /\ mis.nvals = mis.last_nvals
    /\ mis.nvals > 0

\* the loop has ended by reaching zero candidates after two iterations
C21_WitnessZero ==
    /\ mis.pc = "done"
    /\ mis.rounds >= 2
    /\ mis.nvals = 0

\* pargin [k] is an argument of the call and is a string
IsString(k) == k < sel.nargin /\ sel.str[k]

\* the form and the argument counts the strings of the call select
FormByStrings ==
    IF IsString(0) THEN "op, A, thunk, desc"
    ELSE IF IsString(1) /\ IsString(2) THEN "Cin, accum, op, A, thunk, desc"
    ELSE IF IsString(2) /\ ~IsString(3) THEN "Cin, M, op, A, thunk, desc"
    ELSE IF IsString(2) /\ IsString(3)
         THEN "Cin, M, accum, op, A, thunk, desc"
    ELSE "none"

CountsByStrings ==
    IF IsString(0) THEN {3, 4}
    ELSE IF IsString(1) /\ IsString(2) THEN {5, 6}
    ELSE IF IsString(2) /\ ~IsString(3) THEN {5, 6}
    ELSE IF IsString(2) /\ IsString(3) THEN {6, 7}
    ELSE {}

\* the call has left the tests of its arguments
SelFound == sel.pc \in {"select", "done", "error", "crashed"}

\* the outcome of a call the strings of its arguments select the form of
FormChosenByStrings ==
    IF sel.nargout <= 1 /\ sel.nargin \in CountsByStrings
    THEN /\ sel.pc \in {"select", "done"}
         /\ sel.form = FormByStrings
         /\ sel.args.op >= 0 /\ sel.args.A = sel.args.op + 1
         /\ (sel.args.thunk >= 0) <=> (sel.nargin = SetMax(CountsByStrings))
         /\ (sel.args.C >= 0) <=> ~IsString(0)
         /\ (sel.args.M >= 0) <=> (~IsString(0) /\ ~IsString(1))
         /\ (sel.args.accum >= 0) <=> (~IsString(0) /\ IsString(sel.args.op - 1))
    ELSE /\ sel.pc = "error"
         /\ sel.usage \in Forms
         /\ ~sel.called

\* C22: gbselect chooses its argument form from which arguments are
\* strings (position 0: op, A; positions 1 and 2: Cin, accum, op, A;
\* position 2 and not 3: Cin, M, op, A; positions 2 and 3: Cin, M, accum,
\* op, A), each with its two argument counts; every other call raises the
\* usage error, and GxB_select is called only for a call of one of the
\* forms.
C22_FormChosenByStrings ==
    /\ SelFound => FormChosenByStrings
    /\ sel.called => sel.pc = "done"

\* the same for the calls whose tests read no entry beyond the end of pargin
C22_FormChosenWithinPargin ==
    (SelFound /\ \A k \in sel.reads : k < sel.nargin) => FormChosenByStrings

\* C28: gbselect never reads pargin [k] with k >= nargin while it chooses
\* the argument form and fetches op, A, thunk, Cin, M and accum.
C28_ReadsWithinPargin == \A k \in sel.reads : k < sel.nargin

\* the calls of C28 that stay inside pargin: every call but those of three
\* arguments of which the middle one is no string and the last one is
C28_ReadsWithinParginUnless ==
    (\E k \in sel.reads : k >= sel.nargin) =>
        /\ sel.nargin = 3
        /\ ~sel.str[0] /\ ~sel.str[1] /\ sel.str[2]
        /\ sel.reads = {0, 1, 2, 3}

\* the prefix-sum step of the call is behind it and C has not been freed
Summed ==
    \/ pc \in {"free0", "ixalloc", "phase2"}
    \/ pc = "done" /\ C.st = "allocated"

\* the total of all per-thread phase-1 counts
Phase1Sum == SumTo([k \in 0 .. cnvec - 1 |-> Phase1Total(k)], cnvec)

\* C23: after the prefix-sum step Cp[0] = 0, Cp[k] <= Cp[k+1] for every
\* vector k and Cp[cnvec] is the total of all per-thread phase-1 counts;
\* C->i and C->x, once allocated, have exactly cnz = Cp[cnvec] positions,
\* in phase 2 and at the return alike.
C23_CpIsPrefixSum ==
    Summed =>
        /\ DOMAIN C.p = 0 .. cnvec
        /\ C.p[0] = 0
        /\ \A k \in 0 .. cnvec - 1 : C.p[k] <= C.p[k + 1]
        /\ C.p[cnvec] = Phase1Sum
        /\ C.st = "allocated" =>
              /\ C.nzmax = C.p[cnvec]
              /\ DOMAIN C.i = 0 .. C.p[cnvec] - 1
              /\ DOMAIN C.x = 0 .. C.p[cnvec] - 1

\* a call of two threads has returned a C of two vectors with entries, one
\* of them with the entries of both threads
C23_Witness ==
    /\ pc = "done" /\ ret = "GrB_SUCCESS" /\ C.st = "allocated"
    /\ nthreads >= 2
    /\ \E k \in 0 .. cnvec - 1 :
          /\ 0 < C.p[k] /\ C.p[k] < C.p[k + 1]
          /\ \A t \in Threads : CountSlice(t)[k] > 0
    /\ C.nzmax = C.p[cnvec]

\* C24: within each vector of C the entries written by a thread come before
\* those written by every later thread, a thread writes its entries at
\* ascending positions in the order it scans the vectors of its slice, and
\* so (the slices being consecutive ascending ranges of the vectors of A)
\* the row indices inside every vector of the finished C are strictly
\* ascending.
C24_RowsAscending ==
    /\ \A w1, w2 \in wlog :
          (w1[2] = w2[2] /\ w1[1] < w2[1]) => w1[3] < w2[3]
    /\ pc = "phase2" =>
          \A w1, w2 \in wlog :
             (w1[2] = w2[2] /\ w1[1] = w2[1] /\ w1[3] < w2[3]) =>
                 /\ C.i[w1[3]] < C.i[w2[3]]
                 /\ {C.i[w1[3]], C.i[w2[3]]} \subseteq Aslice[w1[1]].rows
    /\ Filled =>
          \A k \in 0 .. cnvec - 1 : \A q \in C.p[k] .. C.p[k + 1] - 2 :
             C.i[q] < C.i[q + 1]

\* a finished vector of C holds two entries of one thread followed by an
\* entry of the next thread
C24_Witness ==
    /\ Filled
    /\ \E w1, w2, w3 \in wlog :
          /\ w1[2] = w2[2] /\ w2[2] = w3[2]
          /\ w1[1] = w2[1] /\ w2[1] < w3[1]
          /\ w1[3] < w2[3] /\ w2[3] < w3[3]

\* C25: in phase 2 no variable of the call is written by two different
\* threads: not the status variable info, and no position of C->i and C->x.
C25_NoVariableWrittenTwice ==
    /\ \A t1, t2 \in infow : t1 = t2
    /\ \A w1, w2 \in wlog : w1[3] = w2[3] => w1[1] = w2[1]

\* the same with info left aside: a step of a thread in phase 2 changes C->i
\* and C->x at positions no other thread has written, and nothing else of
\* the call but info
C25_OnlyInfoWrittenTwice ==
    /\ \A w1, w2 \in wlog : w1[3] = w2[3] => w1[1] = w2[1]
    /\ [][(pc = "phase2" /\ pc' = "phase2") =>
             /\ UNCHANGED <<callvars, Chandle, ok, C_counts, ret, mask_applied>>
             /\ C'.p = C.p /\ C'.h = C.h /\ C'.nzmax = C.nzmax
             /\ \A q \in DOMAIN C.i :
                   (C'.i[q] # C.i[q] \/ C'.x[q] # C.x[q]) =>
                       \E w \in wlog' \ wlog : w[3] = q]_vars

\* the candidates: the entries of candidates, all of them true
Candidates == MaskOf(mis.candidates, FALSE, mis.n)

\* the nodes without an edge
Singletons == {i \in 0 .. mis.n - 1 : ~\E e \in mis.A : e[1] = i}

\* an iteration of the loop has run to its end, or has left by the break
IterationEnded == mis.rounds >= 1 /\ mis.pc \in {"loop", "wrapup"}

\* C26: at the end of every iteration of the main loop of mis no member of
\* iset is a candidate and no candidate is adjacent to a member of iset;
\* from before the first iteration on, every singleton is a member of iset
\* and none is a candidate.
C26_CandidatesApartFromIset ==
    /\ IterationEnded =>
          /\ Members \cap Candidates = {}
          /\ \A c \in Candidates, m \in Members : <<c, m>> \notin mis.A
    /\ mis.pc \in {"loop", "neighbors", "wrapup", "exit", "done"} =>
          /\ Singletons \subseteq Members
          /\ Singletons \cap Candidates = {}

\* an iteration has ended with a new member of iset and with a candidate
\* left that is not adjacent to it
C26_Witness ==
    /\ IterationEnded
    /\ mis.pc = "loop"
    /\ Candidates # {}
    /\ Members # {}
    /\ mis.nvals < Cardinality(DOMAIN mis.degrees) - 1

\* an iteration has ended in a graph with a singleton and an edge
C26_WitnessSingleton ==
    /\ IterationEnded
    /\ Singletons # {}
    /\ Members \ Singletons # {}

\* before the first iteration the singletons are in iset
C26_WitnessBefore ==
    /\ mis.pc = "loop" /\ mis.rounds = 0
    /\ Singletons # {} /\ Candidates # {}

\* GB_memcpy has taken its parallel branch
CpyParallel == cpy.pc \in {"par", "done"} /\ cpy.team # 0

\* the iterations that have written the byte at offset o
WritersOfByte(o) == {w[1] : w \in {v \in cpy.writes : v[2] = o}}

\* C27: in the parallel branch of GB_memcpy iteration k writes only bytes
\* of [k*GB_CHUNK, min (n, (k+1)*GB_CHUNK)), no byte is written by two
\* iterations under any schedule, at the return every byte of [0, n) has
\* been written by exactly one iteration and no other byte has, and the
\* number of threads used is at least 1 and at most n / GB_CHUNK.
C27_ChunksPartitionBytes ==
    CpyParallel =>
        /\ cpy.nthreads > 1 /\ cpy.n > GB_CHUNK
        /\ 1 <= cpy.team /\ cpy.team <= cpy.n \div GB_CHUNK
        /\ DOMAIN cpy.hold = 0 .. cpy.team - 1
        /\ \A w \in cpy.writes :
              /\ w[1] * GB_CHUNK <= w[2]
              /\ w[2] < (w[1] + 1) * GB_CHUNK
              /\ w[2] < cpy.n
        /\ \A o \in DOMAIN cpy.dest : Cardinality(WritersOfByte(o)) <= 1
        /\ cpy.pc = "done" =>
              \A o \in DOMAIN cpy.dest :
                 Cardinality(WritersOfByte(o)) = IF o < cpy.n THEN 1 ELSE 0

\* the parallel branch has returned: three iterations, the last of them
\* shorter than a chunk, run by two threads of the three asked for
C27_Witness ==
    /\ cpy.pc = "done"
    /\ cpy.team = 2 /\ cpy.nthreads = 3
    /\ cpy.nchunks = 3
    /\ cpy.n % GB_CHUNK # 0
    /\ {w[1] : w \in cpy.writes} = {0, 1, 2}

\* two threads are inside two iterations at once
C27_WitnessTwoAtOnce ==
    /\ cpy.pc = "par"
    /\ \E t1, t2 \in DOMAIN cpy.hold :
          t1 # t2 /\ cpy.hold[t1] # -1 /\ cpy.hold[t2] # -1

\* phase 1 of the call is over
Phase1Over ==
    \/ pc = "phase1" /\ Phase1Joined
    \/ pc \in {"cumsum", "free0", "ixalloc", "phase2", "done"}

\* C29: after phase 1, every slice whose cached nvec_nonempty was negative
\* on entry holds the number of non-empty vectors of that slice itself.
C29_SliceCachesItsOwnCount ==
    Phase1Over =>
        \A tid \in Threads :
           old.Aslice[tid].nvec_nonempty < 0 =>
               Aslice[tid].nvec_nonempty =
                   GB_nvec_nonempty(A.x, A.vlen, Aslice[tid].rows)

\* the same for the first slice, and for the others the count of the first
C29_SliceCachesCountOfFirst ==
    Phase1Over =>
        \A tid \in Threads :
           old.Aslice[tid].nvec_nonempty < 0 =>
               Aslice[tid].nvec_nonempty =
                   GB_nvec_nonempty(A.x, A.vlen, Aslice[0].rows)

====
